---- MODULE Spec2Model ----
(***************************************************************************)
(* Verification model of gbasilveira/workflows.                            *)
(*                                                                         *)
(*   Spec     - the DAG scheduler (dagengine/engine.go): PreprocessDAG,    *)
(*              Run, executeNode, triggerChildren, one graph per behaviour *)
(*   FairSpec - Spec with weak fairness on the scheduler's steps           *)
(*   RegSpec  - the version registry (orchestrator/message.go and          *)
(*              orchestrator/workflow_manager.go)                          *)
(*   EngSpec  - EngineService: ExecuteWorkflow, its goroutine, StopWorkflow *)
(*   LbSpec   - the two load balancers (orchestrator/loadbalancer.go)      *)
(*   DispSpec - OrchestratorV2: ExecuteWorkflow, discovery, execution ids  *)
(*   SubSpec  - SubWorkflowCoordinator: ExecuteSubWorkflow, CancelChildren *)
(***************************************************************************)
EXTENDS Integers, Sequences, FiniteSets, TLC

VARIABLES
    \* ---- dagengine: DAGEngine and its Nodes
    Dependencies,   \* node id -> Node.Dependencies (a list of ids)
    Children,       \* node id -> Node.Children
    ReadyCounter,   \* node id -> Node.ReadyCounter
    Status,         \* node id -> Node.Status
    nodeMu,         \* node id -> TRUE while Node.mu is held
    gor,            \* node id -> (position in executeNode -> number of goroutines there)
    trig,           \* the goroutine inside triggerChildren (holder of DAGEngine.mu)
    wg,             \* DAGEngine.wg counter
    runPc,          \* position of Run
    rootsLeft,      \* roots the loop of Run has not visited yet
    runResult,      \* what Run returned: "nil", or the id of the node whose error it carries
    preResult,      \* what the last PreprocessDAG returned
    launched,       \* node id -> number of `go e.executeNode` statements issued
    execCount,      \* node id -> number of Task.Execute invocations
    termCount,      \* node id -> number of terminal status assignments
    firstFailed,    \* the first node that was marked FAILED
    ctxDone,        \* the context passed to Run has been cancelled
    \* ---- orchestrator: VersionManager and WorkflowManager
    versions,       \* VersionManager.versions
    latest,         \* VersionManager.latest
    builders,       \* WorkflowManager.builders, each builder with the version whose
                    \* registration stored it
    metadata,       \* WorkflowManager.metadata
    regCalls,       \* number of RegisterWorkflow calls made
    lastReg,        \* the last RegisterWorkflow call and its outcome
    produced,       \* what the builder of each successful RegisterWorkflow call produced
    \* ---- engine: EngineService
    esCapacity,     \* EngineService.capacity
    esActive,       \* EngineService.activeWorkflows: execution id -> the execution it points to
    esExecs,        \* the WorkflowExecution objects, by the call that created them
    esPc,           \* call -> where that ExecuteWorkflow call and its goroutine are
    esErr,          \* call -> what ExecuteWorkflow returned
    \* ---- orchestrator: the load balancers
    lbKind,         \* which LoadBalancer was constructed
    vnodeAt,        \* ring position -> the engine id whose virtual node hashes there
    hashRing,       \* ConsistentHashLoadBalancer.hashRing: the hosts on the ring
    capacities,     \* capacities of either balancer
    activeWorkflows,\* activeWorkflows of either balancer
    engines,        \* RoundRobinLoadBalancer.engines
    current,        \* RoundRobinLoadBalancer.current
    lbSel,          \* what the last SelectEngine call returned
    \* ---- orchestrator: OrchestratorV2
    oEngines,       \* the keys of OrchestratorV2.engines
    oMu,            \* TRUE while the discovery callback holds OrchestratorV2.mu
    discPc,         \* where the discovery callback is
    discList,       \* the engine list the running (or the last) callback was given:
                    \* engine id -> capacity
    discTodo,       \* the engines of that list the first loop has not visited yet
    executionCounter, \* OrchestratorV2.executionCounter
    minted,         \* the execution ids minted so far, in mint order
    dPc,            \* call -> where that OrchestratorV2.ExecuteWorkflow call is
    dReq,           \* call -> its workflow, execution id, engine, result and the
                    \*         Increment/Decrement calls it has made
    \* ---- orchestrator: SubWorkflowCoordinator
    subExecs,       \* the SubWorkflowExecution objects, by the call that created them
    activeSubWorkflows, \* SubWorkflowCoordinator.activeSubWorkflows: id -> object
    parentToChildren,   \* SubWorkflowCoordinator.parentToChildren
    subPc,          \* call -> where that ExecuteSubWorkflow call's goroutine is
    cancel,         \* the CancelChildren call in progress: position, parent, children, index
    stopsIssued,    \* child ids for which a stop instruction was sent to an engine
    cancelReturned, \* children that were not COMPLETED or FAILED when a CancelChildren
                    \* call over them returned
    \* ---- orchestrator: Monitor
    events,         \* Monitor.events: the buffered inbound channel
    subscribers,    \* Monitor.subscribers: the buffered channel of each subscriber
    proc,           \* processEvents: position, the event in hand, the next subscriber
    recorded,       \* the outcome of each RecordEvent call made so far
    accepted,       \* the events in the order they entered Monitor.events
    received,       \* subscriber -> the events it has read from its channel, in order
    \* ---- spec: the YAML parser and WorkflowSpec.Validate
    workflowSpec,   \* the WorkflowSpec that yaml.Unmarshal produced from the bytes
    parsed,         \* what ParseYAMLFromBytes returned for it
    \* ---- dagengine, continued
    preCalls,       \* the PreprocessDAG calls made on the engine
    \* ---- orchestrator: Monitor.Stop and AttachToEngineGRPC
    stopPc,         \* how far the one Stop call has got
    grpcStreams,    \* Monitor.grpcStreams: whether the map is nil, and the ids in it
    streams,        \* engine id -> the goroutine AttachToEngineGRPC started for it
    monPanic,       \* the runtime panic that ended the process, or "none"
    \* ---- orchestrator: the local Orchestrator and its engine wrappers
    wrappers,       \* engine id -> the EngineWrapper's Status, Engine and channels
    requestID,      \* Orchestrator.requestID
    lPc,            \* call -> how far the ExecuteWorkflow call has got
    lReq,           \* call -> its selected engine, its RequestID and what it returned
    runs            \* RequestID -> the goroutine handleWorkflowRequest started for it

dagVars == <<Dependencies, Children, ReadyCounter, Status, nodeMu, gor, trig, wg,
             runPc, rootsLeft, runResult, preResult, launched, execCount,
             termCount, firstFailed, ctxDone>>
regVars == <<versions, latest, builders, metadata, regCalls, lastReg, produced>>
engVars == <<esCapacity, esActive, esExecs, esPc, esErr>>
lbVars == <<lbKind, vnodeAt, hashRing, capacities, activeWorkflows, engines, current, lbSel>>
dispVars == <<oEngines, oMu, discPc, discList, discTodo, executionCounter, minted, dPc, dReq>>
subVars == <<subExecs, activeSubWorkflows, parentToChildren, subPc, cancel, stopsIssued,
             cancelReturned>>
monVars == <<events, subscribers, proc, recorded, accepted, received>>
\* the components added after the coordinator
valVars == <<workflowSpec, parsed>>
preVars == <<preCalls>>
stopVars == <<stopPc, grpcStreams, streams, monPanic>>
locVars == <<wrappers, requestID, lPc, lReq, runs>>
lateVars == <<stopVars, locVars>>
moreVars == <<monVars, valVars, preVars, lateVars>>
\* what a PreprocessDAG call leaves alone beside the scheduler's own variables
nonDagPreVars == <<regVars, engVars, lbVars, dispVars, subVars, monVars, valVars, lateVars>>
nonMonVars == <<dagVars, regVars, engVars, lbVars, dispVars, subVars, valVars, preVars, lateVars>>
nonValVars == <<dagVars, regVars, engVars, lbVars, dispVars, subVars, monVars, preVars, lateVars>>
\* what the Monitor's operations leave alone beside the Monitor's own variables
nonMonitorVars == <<dagVars, regVars, engVars, lbVars, dispVars, subVars, valVars, preVars, locVars>>
nonLocVars == <<dagVars, regVars, engVars, lbVars, dispVars, subVars, monVars, valVars, preVars,
                stopVars>>
nonDagVars == <<regVars, engVars, lbVars, dispVars, subVars, moreVars>>
nonRegVars == <<dagVars, engVars, lbVars, dispVars, subVars, moreVars>>
nonEngVars == <<dagVars, regVars, lbVars, dispVars, subVars, moreVars>>
nonLbVars == <<dagVars, regVars, engVars, dispVars, subVars, moreVars>>
nonSubVars == <<dagVars, regVars, engVars, lbVars, dispVars, moreVars>>
\* what an OrchestratorV2 action that leaves the balancer alone leaves unchanged
nonDispVars == <<dagVars, regVars, engVars, lbVars, subVars, moreVars>>
\* what an OrchestratorV2 action that calls a balancer method leaves unchanged
besideDispLb == <<dagVars, regVars, engVars, lbKind, vnodeAt, subVars, moreVars>>
vars == <<dagVars, regVars, engVars, lbVars, dispVars, subVars, moreVars>>

None == "none"

\* nobody is inside triggerChildren (DAGEngine.mu is free)
NoTrig == [node |-> None, idx |-> 0]

\* no RegisterWorkflow call has been made
NoReg == [id |-> None, version |-> <<>>, kind |-> None, dependents |-> <<>>, built |-> FALSE]

(***************************************************************************)
(* Bounds                                                                  *)
(***************************************************************************)
\* executors that may return an error during one Run
MaxFail == 2
\* RegisterWorkflow calls in one behaviour
MaxRegs == 3
\* EngineService.ExecuteWorkflow calls in one behaviour
MaxEsCalls == 3
\* largest capacity an EngineService is constructed with
MaxCapacity == 2
\* virtual nodes of one engine on the hash ring
VirtualNodes == 2
\* largest active count a balancer is driven to
MaxActive == 1
\* OrchestratorV2.ExecuteWorkflow calls in one behaviour
MaxDispCalls == 2
\* SubWorkflowCoordinator.ExecuteSubWorkflow calls in one behaviour
MaxSubCalls == 2
\* RecordEvent calls in one behaviour
MaxEvents == 3
\* Subscribe calls in one behaviour
MaxSubscribers == 2
\* buffer of Monitor.events (1000 in NewMonitor) and of a subscriber (100 in Subscribe)
InboundCap == 2
SubscriberCap == 1
\* nodes of a parsed WorkflowSpec
MaxSpecNodes == 2
\* PreprocessDAG calls on one engine
MaxPreprocess == 2

(***************************************************************************)
(* Graphs handed to the scheduler (NewNode + AddNode for every node).      *)
(* "Z" is an id that is never added to the engine.                         *)
(***************************************************************************)
GraphDiamond  == [A |-> <<>>, B |-> <<"A">>, C |-> <<"A">>, D |-> <<"B", "C">>]
GraphChain    == [A |-> <<>>, B |-> <<"A">>, C |-> <<"B">>]
GraphBranches == [A |-> <<>>, B |-> <<>>, C |-> <<"B">>, D |-> <<"A">>]
GraphSingle   == [A |-> <<>>]
GraphDupDep   == [A |-> <<>>, B |-> <<"A", "A">>, C |-> <<"B", "A">>]
GraphCycle    == [A |-> <<>>, B |-> <<"A", "C">>, C |-> <<"B">>]
GraphLoop     == [A |-> <<"B">>, B |-> <<"A">>]
GraphDangling == [A |-> <<>>, B |-> <<"A", "Z">>, C |-> <<"A">>]

\* every graph over the three nodes A, B, C whose dependency lists hold no
\* duplicates and no unknown ids (self-loops and cycles included)
SmallIds == <<"A", "B", "C">>

ListOf(S) == SelectSeq(SmallIds, LAMBDA id : id \in S)

SmallGraphs ==
    {[n \in {"A", "B", "C"} |-> ListOf(d[n])] : d \in [{"A", "B", "C"} -> SUBSET {"A", "B", "C"}]}

Graphs == {GraphDiamond, GraphChain, GraphBranches, GraphSingle, GraphDupDep,
           GraphCycle, GraphLoop, GraphDangling} \cup SmallGraphs

NodeIds == DOMAIN Dependencies

Positions == {"spawned", "exec", "ret_ok", "ret_err", "want_trig", "trig", "done"}

\* every order in which a Go map with key set S can be ranged over
Orders(S) == {o \in [1..Cardinality(S) -> S] : \A i, j \in DOMAIN o : o[i] = o[j] => i = j}

(***************************************************************************)
(* NewNode                                                                 *)
(***************************************************************************)
NewReadyCounter_Unset(deps) == 0

NewReadyCounter(deps) == Len(deps)

(***************************************************************************)
(* PreprocessDAG                                                           *)
(***************************************************************************)
RECURSIVE AppendToParents(_, _, _, _)
AppendToParents(ch, childID, deps, nodes) ==
    IF deps = <<>> THEN [ch |-> ch, err |-> FALSE]
    ELSE IF Head(deps) \notin nodes THEN [ch |-> ch, err |-> TRUE]
    ELSE AppendToParents([ch EXCEPT ![Head(deps)] = Append(@, childID)],
                         childID, Tail(deps), nodes)

RECURSIVE BuildChildren(_, _, _)
BuildChildren(ch, order, deps) ==
    IF order = <<>> THEN [ch |-> ch, err |-> FALSE]
    ELSE LET r == AppendToParents(ch, Head(order), deps[Head(order)], DOMAIN deps)
         IN  IF r.err THEN r ELSE BuildChildren(r.ch, Tail(order), deps)

PreprocessDAG_NoClear ==
    /\ runPc = "built"
    /\ preCalls < MaxPreprocess
    /\ preCalls' = preCalls + 1
    /\ \E order \in Orders(NodeIds) :
         LET r == BuildChildren(Children, order, Dependencies)
         IN  /\ Children' = r.ch
             /\ preResult' = IF r.err THEN "error" ELSE "ok"
    /\ UNCHANGED <<Dependencies, ReadyCounter, Status, nodeMu, gor, trig, wg, runPc,
                   rootsLeft, runResult, launched, execCount, termCount, firstFailed,
                   ctxDone, nonDagPreVars>>

\* node.Children = nil for every node, then the lists are built in the order the
\* range over e.Nodes takes
PreprocessDAG ==
    /\ runPc = "built"
    /\ preCalls < MaxPreprocess
    /\ preCalls' = preCalls + 1
    /\ \E order \in Orders(NodeIds) :
         LET r == BuildChildren([n \in NodeIds |-> <<>>], order, Dependencies)
         IN  /\ Children' = r.ch
             /\ preResult' = IF r.err THEN "error" ELSE "ok"
    /\ UNCHANGED <<Dependencies, ReadyCounter, Status, nodeMu, gor, trig, wg, runPc,
                   rootsLeft, runResult, launched, execCount, termCount, firstFailed,
                   ctxDone, nonDagPreVars>>

(***************************************************************************)
(* Run                                                                     *)
(***************************************************************************)
Move(g, n, from, to) ==
    [g EXCEPT ![n] = [@ EXCEPT ![from] = @ - 1, ![to] = @ + 1]]

Spawn(g, n) == [g EXCEPT ![n] = [@ EXCEPT !["spawned"] = @ + 1]]

IsRoot(n) == Len(Dependencies[n]) = 0

\* Run is entered (callers run an engine only after PreprocessDAG returned nil)
RunBegin ==
    /\ runPc = "built"
    /\ preResult = "ok"
    /\ runPc' = "running"
    /\ rootsLeft' = {n \in NodeIds : IsRoot(n)}
    /\ UNCHANGED <<Dependencies, Children, ReadyCounter, Status, nodeMu, gor, trig, wg,
                   runResult, preResult, launched, execCount, termCount, firstFailed,
                   ctxDone, nonDagVars>>

\* one iteration of the loop over e.Nodes that finds a root
RunLaunchRoot(n) ==
    /\ runPc = "running"
    /\ n \in rootsLeft
    /\ rootsLeft' = rootsLeft \ {n}
    /\ wg' = wg + 1
    /\ gor' = Spawn(gor, n)
    /\ launched' = [launched EXCEPT ![n] = @ + 1]
    /\ UNCHANGED <<Dependencies, Children, ReadyCounter, Status, nodeMu, trig, runPc,
                   runResult, preResult, execCount, termCount, firstFailed, ctxDone,
                   nonDagVars>>

\* what Run hands back once wg.Wait() has returned
RunValue(failed) == "nil"

RunReturn ==
    /\ runPc = "running"
    /\ rootsLeft = {}
    /\ wg = 0
    /\ runPc' = "returned"
    /\ runResult' = RunValue(firstFailed)
    /\ UNCHANGED <<Dependencies, Children, ReadyCounter, Status, nodeMu, gor, trig, wg,
                   rootsLeft, preResult, launched, execCount, termCount, firstFailed,
                   ctxDone, nonDagVars>>

\* the caller's context is cancelled (StopWorkflow, a deadline)
CancelCtx ==
    /\ ~ctxDone
    /\ ctxDone' = TRUE
    /\ UNCHANGED <<Dependencies, Children, ReadyCounter, Status, nodeMu, gor, trig, wg,
                   runPc, rootsLeft, runResult, preResult, launched, execCount,
                   termCount, firstFailed, nonDagVars>>

(***************************************************************************)
(* executeNode                                                             *)
(***************************************************************************)
\* n.mu.Lock(); n.Status = "RUNNING"; n.mu.Unlock(); then Task.Execute is entered
SetRunning(n) ==
    /\ gor[n]["spawned"] > 0
    /\ ~nodeMu[n]
    /\ Status' = [Status EXCEPT ![n] = "RUNNING"]
    /\ execCount' = [execCount EXCEPT ![n] = @ + 1]
    /\ gor' = Move(gor, n, "spawned", "exec")
    /\ UNCHANGED <<Dependencies, Children, ReadyCounter, nodeMu, trig, wg, runPc,
                   rootsLeft, runResult, preResult, launched, termCount, firstFailed,
                   ctxDone, nonDagVars>>

\* Task.Execute returns a result
ExecuteOk(n) ==
    /\ gor[n]["exec"] > 0
    /\ gor' = Move(gor, n, "exec", "ret_ok")
    /\ UNCHANGED <<Dependencies, Children, ReadyCounter, Status, nodeMu, trig, wg, runPc,
                   rootsLeft, runResult, preResult, launched, execCount, termCount,
                   firstFailed, ctxDone, nonDagVars>>

Failures ==
    Cardinality({m \in NodeIds : Status[m] = "FAILED" \/ gor[m]["ret_err"] > 0})

\* Task.Execute returns an error
ExecuteErr(n) ==
    /\ gor[n]["exec"] > 0
    /\ Failures < MaxFail
    /\ gor' = Move(gor, n, "exec", "ret_err")
    /\ UNCHANGED <<Dependencies, Children, ReadyCounter, Status, nodeMu, trig, wg, runPc,
                   rootsLeft, runResult, preResult, launched, execCount, termCount,
                   firstFailed, ctxDone, nonDagVars>>

\* err != nil: n.mu.Lock(); n.Status = "FAILED"; return (the deferred wg.Done runs,
\* n.mu is not unlocked)
MarkFailed_NoDone(n) ==
    /\ gor[n]["ret_err"] > 0
    /\ ~nodeMu[n]
    /\ nodeMu' = [nodeMu EXCEPT ![n] = TRUE]
    /\ Status' = [Status EXCEPT ![n] = "FAILED"]
    /\ termCount' = [termCount EXCEPT ![n] = @ + 1]
    /\ firstFailed' = IF firstFailed = None THEN n ELSE firstFailed
    /\ gor' = Move(gor, n, "ret_err", "done")
    /\ UNCHANGED <<Dependencies, Children, ReadyCounter, trig, wg, runPc, rootsLeft,
                   runResult, preResult, launched, execCount, ctxDone, nonDagVars>>

MarkFailed(n) ==
    /\ gor[n]["ret_err"] > 0
    /\ ~nodeMu[n]
    /\ nodeMu' = [nodeMu EXCEPT ![n] = TRUE]
    /\ Status' = [Status EXCEPT ![n] = "FAILED"]
    /\ termCount' = [termCount EXCEPT ![n] = @ + 1]
    /\ firstFailed' = IF firstFailed = None THEN n ELSE firstFailed
    /\ wg' = wg - 1
    /\ gor' = Move(gor, n, "ret_err", "done")
    /\ UNCHANGED <<Dependencies, Children, ReadyCounter, trig, runPc, rootsLeft,
                   runResult, preResult, launched, execCount, ctxDone, nonDagVars>>

\* err == nil: n.mu.Lock(); n.Status = "COMPLETED"; n.Result = result; n.mu.Unlock()
MarkCompleted(n) ==
    /\ gor[n]["ret_ok"] > 0
    /\ ~nodeMu[n]
    /\ Status' = [Status EXCEPT ![n] = "COMPLETED"]
    /\ termCount' = [termCount EXCEPT ![n] = @ + 1]
    /\ gor' = Move(gor, n, "ret_ok", "want_trig")
    /\ UNCHANGED <<Dependencies, Children, ReadyCounter, nodeMu, trig, wg, runPc,
                   rootsLeft, runResult, preResult, launched, execCount, firstFailed,
                   ctxDone, nonDagVars>>

(***************************************************************************)
(* triggerChildren                                                         *)
(***************************************************************************)
\* e.mu.Lock()
TriggerEnter(n) ==
    /\ gor[n]["want_trig"] > 0
    /\ trig = NoTrig
    /\ trig' = [node |-> n, idx |-> 1]
    /\ gor' = Move(gor, n, "want_trig", "trig")
    /\ UNCHANGED <<Dependencies, Children, ReadyCounter, Status, nodeMu, wg, runPc,
                   rootsLeft, runResult, preResult, launched, execCount, termCount,
                   firstFailed, ctxDone, nonDagVars>>

\* the test that guards `go e.executeNode(ctx, childNode)`
ShouldLaunch_AnyParent(counter, status) == status = "PENDING"

ShouldLaunch_OffByOne(counter, status) == counter <= 1 /\ status = "PENDING"

ShouldLaunch(counter, status) == counter = 0 /\ status = "PENDING"

\* one iteration of the loop over parentNode.Children, under childNode.mu
TriggerChild ==
    /\ trig # NoTrig
    /\ trig.idx <= Len(Children[trig.node])
    /\ LET child == Children[trig.node][trig.idx]
           counter == ReadyCounter[child] - 1
       IN  /\ ~nodeMu[child]
           /\ ReadyCounter' = [ReadyCounter EXCEPT ![child] = counter]
           /\ IF ShouldLaunch(counter, Status[child])
              THEN /\ wg' = wg + 1
                   /\ gor' = Spawn(gor, child)
                   /\ launched' = [launched EXCEPT ![child] = @ + 1]
              ELSE UNCHANGED <<wg, gor, launched>>
    /\ trig' = [trig EXCEPT !.idx = @ + 1]
    /\ UNCHANGED <<Dependencies, Children, Status, nodeMu, runPc, rootsLeft, runResult,
                   preResult, execCount, termCount, firstFailed, ctxDone, nonDagVars>>

\* the loop is over: e.mu.Unlock(), then the deferred wg.Done of executeNode
TriggerExit ==
    /\ trig # NoTrig
    /\ trig.idx > Len(Children[trig.node])
    /\ trig' = NoTrig
    /\ wg' = wg - 1
    /\ gor' = Move(gor, trig.node, "trig", "done")
    /\ UNCHANGED <<Dependencies, Children, ReadyCounter, Status, nodeMu, runPc, rootsLeft,
                   runResult, preResult, launched, execCount, termCount, firstFailed,
                   ctxDone, nonDagVars>>

(***************************************************************************)
(* Version strings are byte sequences, as Go strings are:                  *)
(*   "1.0.0"  "1.0.0-rc"  "2.0.0"  "10.0.0"                               *)
(* ('-' is 45, '.' is 46, '0'..'9' are 48..57, 'c' is 99, 'r' is 114)      *)
(***************************************************************************)
V_1_0_0    == <<49, 46, 48, 46, 48>>
V_1_0_0_rc == <<49, 46, 48, 46, 48, 45, 114, 99>>
V_2_0_0    == <<50, 46, 48, 46, 48>>
V_10_0_0   == <<49, 48, 46, 48, 46, 48>>

VersionStrings == {V_1_0_0, V_1_0_0_rc, V_2_0_0, V_10_0_0}

WorkflowIds == {"w", "x"}

\* a builder either fails or produces a definition whose nodes reference the
\* workflows `refs` as sub-workflows (node metadata workflow_type/workflow_id)
Builders == [ok : BOOLEAN, refs : SUBSET WorkflowIds]

\* the metadata argument of RegisterWorkflow: nil or a map
MetadataArgs == {"nil", "m1"}

\* Go's string comparison a > b: bytewise lexicographic
RECURSIVE StrGreater(_, _)
StrGreater(a, b) ==
    IF a = <<>> THEN FALSE
    ELSE IF b = <<>> THEN TRUE
    ELSE IF Head(a) # Head(b) THEN Head(a) > Head(b)
    ELSE StrGreater(Tail(a), Tail(b))

isNewerVersion(v1, v2) == StrGreater(v1, v2)

\* extractDependencies: the set of referenced workflow ids
extractDependencies(def) == def.refs

\* updateDependencies: the Dependents list of the version being registered, built
\* by ranging over vm.versions in the map order `order`
RECURSIVE DependentsOf(_, _, _)
DependentsOf(id, order, vs) ==
    IF order = <<>> THEN <<>>
    ELSE LET wfID == Head(order)
             n == IF wfID = id THEN 0
                  ELSE Cardinality({v \in DOMAIN vs[wfID] : id \in vs[wfID][v].Dependencies})
         IN  [i \in 1..n |-> wfID] \o DependentsOf(id, Tail(order), vs)

\* builder(): the definition a builder that succeeds produces
BuildDefinition(builder) == [refs |-> builder.refs]

\* CanUpdate
CanUpdate(workflowID, newVersion) ==
    IF workflowID \notin DOMAIN versions THEN [ok |-> TRUE, dependents |-> <<>>, err |-> None]
    ELSE IF workflowID \notin DOMAIN latest THEN [ok |-> TRUE, dependents |-> <<>>, err |-> None]
    ELSE LET currentLatest == latest[workflowID] IN
         IF Len(currentLatest.Dependents) > 0
         THEN [ok |-> FALSE, dependents |-> currentLatest.Dependents, err |-> "HAS_DEPENDENTS"]
         ELSE IF ~isNewerVersion(newVersion, currentLatest.Version)
         THEN [ok |-> FALSE, dependents |-> <<>>, err |-> "NOT_NEWER"]
         ELSE IF newVersion \in DOMAIN versions[workflowID]
         THEN [ok |-> FALSE, dependents |-> <<>>, err |-> "DUPLICATE"]
         ELSE [ok |-> TRUE, dependents |-> <<>>, err |-> None]

VersionsAfter_FreshMap(rec) ==
    (rec.WorkflowID :> (rec.Version :> rec)) @@ versions

\* RegisterVersion: the maps after storing `rec` (whose Dependents are already set)
VersionsAfter(rec) ==
    LET old == IF rec.WorkflowID \in DOMAIN versions THEN versions[rec.WorkflowID] ELSE <<>>
    IN  (rec.WorkflowID :> ((rec.Version :> rec) @@ old)) @@ versions

LatestAfter(rec) ==
    IF rec.WorkflowID \notin DOMAIN latest
       \/ isNewerVersion(rec.Version, latest[rec.WorkflowID].Version)
    THEN (rec.WorkflowID :> rec) @@ latest
    ELSE latest

RegRejected(workflowID, version, kind, dependents, built) ==
    /\ lastReg' = [id |-> workflowID, version |-> version, kind |-> kind,
                   dependents |-> dependents, built |-> built]
    /\ UNCHANGED <<versions, latest, builders, metadata, produced>>

\* WorkflowManager.RegisterWorkflow, with the calls it makes
RegisterWorkflow(workflowID, version, builder, md) ==
    /\ regCalls < MaxRegs
    /\ regCalls' = regCalls + 1
    /\ LET cu == CanUpdate(workflowID, version) IN
       IF ~cu.ok
       THEN RegRejected(workflowID, version, cu.err, cu.dependents, FALSE)
       ELSE IF ~builder.ok
       THEN RegRejected(workflowID, version, "BUILD_FAILED", <<>>, TRUE)
       ELSE IF workflowID = "" \/ version = <<>>
       THEN RegRejected(workflowID, version, "REGISTER_FAILED", <<>>, TRUE)
       ELSE \E order \in Orders(DOMAIN versions \cup {workflowID}) :
              LET def == BuildDefinition(builder)
                  pre == [WorkflowID |-> workflowID, Version |-> version,
                          Definition |-> def,
                          Dependencies |-> extractDependencies(def),
                          Dependents |-> <<>>]
                  stored == VersionsAfter(pre)
                  rec == [pre EXCEPT !.Dependents = DependentsOf(workflowID, order, stored)]
              IN  /\ versions' = VersionsAfter(rec)
                  /\ latest' = LatestAfter(rec)
                  /\ builders' = (workflowID :> [ok |-> builder.ok, refs |-> builder.refs,
                                                  by |-> version]) @@ builders
                  /\ metadata' = (workflowID :> (IF md = "nil" THEN "empty" ELSE md)) @@ metadata
                  /\ lastReg' = [id |-> workflowID, version |-> version, kind |-> "OK",
                                 dependents |-> <<>>, built |-> TRUE]
                  /\ produced' = produced \cup
                         {[id |-> workflowID, version |-> version, def |-> def]}
    /\ UNCHANGED nonRegVars

\* the version argument "latest"
V_latest == <<108, 97, 116, 101, 115, 116>>

NoDefinition == [refs |-> {}]

\* VersionManager.GetVersion followed by WorkflowManager.GetWorkflowDefinition's
\* `return wfVersion.Definition, nil`
GetWorkflowDefinition(workflowID, version) ==
    IF version = <<>> \/ version = V_latest
    THEN IF workflowID \in DOMAIN latest
         THEN [err |-> FALSE, def |-> latest[workflowID].Definition]
         ELSE [err |-> TRUE, def |-> NoDefinition]
    ELSE IF workflowID \notin DOMAIN versions
    THEN [err |-> TRUE, def |-> NoDefinition]
    ELSE IF version \notin DOMAIN versions[workflowID]
    THEN [err |-> TRUE, def |-> NoDefinition]
    ELSE [err |-> FALSE, def |-> versions[workflowID][version].Definition]

(***************************************************************************)
(* engine: EngineService                                                   *)
(***************************************************************************)
EsCalls == 1..MaxEsCalls
ExecIds == {"e1", "e2"}

\* len(es.activeWorkflows) >= es.capacity
AtCapacity_OffByOne(active, capacity) == active > capacity

AtCapacity(active, capacity) == active >= capacity

\* ExecuteWorkflow up to `return`: the check and the insertion happen under es.mu
EsExecuteWorkflow(c, executionID) ==
    /\ esPc[c] = "idle"
    /\ IF AtCapacity(Cardinality(DOMAIN esActive), esCapacity)
       THEN /\ esPc' = [esPc EXCEPT ![c] = "rejected"]
            /\ esErr' = [esErr EXCEPT ![c] = "AT_CAPACITY"]
            /\ UNCHANGED <<esActive, esExecs>>
       ELSE /\ esExecs' = (c :> [ExecutionID |-> executionID, Status |-> "RUNNING",
                                 cancelled |-> FALSE]) @@ esExecs
            /\ esActive' = (executionID :> c) @@ esActive
            /\ esPc' = [esPc EXCEPT ![c] = "run"]
            /\ esErr' = [esErr EXCEPT ![c] = "nil"]
    /\ UNCHANGED <<esCapacity, nonEngVars>>

\* the goroutine: engine.Run returns, then the status is set under es.mu
EsRunReturns(c) ==
    /\ esPc[c] = "run"
    /\ \E failed \in {None, "A"} :
          esExecs' = [esExecs EXCEPT ![c].Status =
                         IF RunValue(failed) # "nil" THEN "FAILED" ELSE "COMPLETED"]
    /\ esPc' = [esPc EXCEPT ![c] = "deferred"]
    /\ UNCHANGED <<esCapacity, esActive, esErr, nonEngVars>>

EsDeferredDelete_Kept(c) ==
    /\ esPc[c] = "deferred"
    /\ esPc' = [esPc EXCEPT ![c] = "done"]
    /\ UNCHANGED <<esCapacity, esActive, esExecs, esErr, nonEngVars>>

\* the goroutine's deferred delete(es.activeWorkflows, executionID)
EsDeferredDelete(c) ==
    /\ esPc[c] = "deferred"
    /\ esActive' = [id \in DOMAIN esActive \ {esExecs[c].ExecutionID} |-> esActive[id]]
    /\ esPc' = [esPc EXCEPT ![c] = "done"]
    /\ UNCHANGED <<esCapacity, esExecs, esErr, nonEngVars>>

\* StopWorkflow on an execution that is in the map (otherwise it only returns an error)
EsStopWorkflow(executionID) ==
    /\ executionID \in DOMAIN esActive
    /\ esExecs' = [esExecs EXCEPT ![esActive[executionID]].Status = "CANCELLED",
                                  ![esActive[executionID]].cancelled = TRUE]
    /\ UNCHANGED <<esCapacity, esActive, esPc, esErr, nonEngVars>>

\* NewEngineService(id, capacity)
EsInit(capacity) ==
    /\ esCapacity = capacity
    /\ esActive = <<>>
    /\ esExecs = <<>>
    /\ esPc = [c \in EsCalls |-> "idle"]
    /\ esErr = [c \in EsCalls |-> None]

(***************************************************************************)
(* orchestrator: ConsistentHashLoadBalancer and RoundRobinLoadBalancer     *)
(***************************************************************************)
EngineIds == {"e1", "e2", "e3"}
EngineOrder == <<"e1", "e2", "e3">>
CapValues == {0, 1}
LbKinds == {"consistent-hash", "round-robin"}

\* the hash ring; a routing key is represented by the ring position it hashes to
RingSize == Cardinality(EngineIds) * VirtualNodes
RingPositions == 0..(RingSize - 1)
Keys == RingPositions

SetMin(S) == CHOOSE x \in S : \A y \in S : x <= y

\* the placements of the engines' virtual nodes: every engine owns VirtualNodes
\* positions and no two virtual nodes share one. Keys cover every position and the
\* engines are interchangeable, so placements are taken up to rotation of the ring
\* and renaming of the engines: the engines first appear in the order of EngineOrder
FirstAt(f, e) == SetMin({p \in RingPositions : f[p] = e})
Layouts ==
    {f \in [RingPositions -> EngineIds] :
        /\ \A e \in EngineIds : Cardinality({p \in RingPositions : f[p] = e}) = VirtualNodes
        /\ \A i \in 1..(Len(EngineOrder) - 1) :
              FirstAt(f, EngineOrder[i]) < FirstAt(f, EngineOrder[i + 1])}
LayoutBlocks == [p \in RingPositions |-> EngineOrder[(p \div VirtualNodes) + 1]]

Range(q) == {q[i] : i \in DOMAIN q}

\* Go map operations: a missing key reads as the zero value
MapGet(m, k) == IF k \in DOMAIN m THEN m[k] ELSE 0
MapPut(m, k, v) == (k :> v) @@ m
MapDelete(m, k) == [x \in DOMAIN m \ {k} |-> m[x]]

NoSel == [engine |-> None, err |-> None]

\* hashRing.Get(key): the owner of the first virtual node clockwise from the key's hash
RingGet(hosts, key) ==
    LET present == {p \in RingPositions : vnodeAt[p] \in hosts}
        ahead == {p \in present : p >= key}
    IN  vnodeAt[IF ahead # {} THEN SetMin(ahead) ELSE SetMin(present)]

CHSelectEngine_LeastLoaded(key) ==
    IF hashRing = {}
    THEN [engine |-> None, err |-> "no engines available"]
    ELSE LET idle == {e \in hashRing : \A f \in hashRing :
                         MapGet(activeWorkflows, e) <= MapGet(activeWorkflows, f)}
         IN  [engine |-> RingGet(idle, key), err |-> "nil"]

CHSelectEngine_Modulo(key) ==
    IF hashRing = {}
    THEN [engine |-> None, err |-> "no engines available"]
    ELSE LET members == SelectSeq(EngineOrder, LAMBDA e : e \in hashRing)
         IN  [engine |-> members[(key % Len(members)) + 1], err |-> "nil"]

\* ConsistentHashLoadBalancer.SelectEngine
CHSelectEngine(key) ==
    IF hashRing = {}
    THEN [engine |-> None, err |-> "no engines available"]
    ELSE [engine |-> RingGet(hashRing, key), err |-> "nil"]

\* the loop of RoundRobinLoadBalancer.SelectEngine from iteration i on; indexing
\* lb.engines at or past its length panics
RECURSIVE RRScan(_, _, _)
RRScan(i, cur, start) ==
    IF i >= Len(engines)
    THEN [engine |-> engines[1], err |-> "nil", current |-> cur]
    ELSE IF cur >= Len(engines)
    THEN [engine |-> None, err |-> "panic", current |-> cur]
    ELSE LET engineID == engines[cur + 1]
             nxt == (cur + 1) % Len(engines)
         IN  IF MapGet(activeWorkflows, engineID) < MapGet(capacities, engineID)
             THEN [engine |-> engineID, err |-> "nil", current |-> nxt]
             ELSE IF nxt = start
             THEN [engine |-> engineID, err |-> "nil", current |-> nxt]
             ELSE RRScan(i + 1, nxt, start)

\* RoundRobinLoadBalancer.SelectEngine
RRSelectEngine ==
    IF Len(engines) = 0
    THEN [engine |-> None, err |-> "no engines available", current |-> current]
    ELSE RRScan(0, current, current)

\* LoadBalancer.SelectEngine of whichever balancer was constructed: what it returns
\* and where it leaves the round-robin cursor
SelectOutcome(key) ==
    IF lbKind = "consistent-hash"
    THEN [engine |-> CHSelectEngine(key).engine, err |-> CHSelectEngine(key).err,
          current |-> current]
    ELSE RRSelectEngine

\* a SelectEngine call whose result is kept in lbSel
SelectEngine(key) ==
    /\ lbSel' = [engine |-> SelectOutcome(key).engine, err |-> SelectOutcome(key).err]
    /\ current' = SelectOutcome(key).current
    /\ UNCHANGED <<hashRing, capacities, activeWorkflows, engines>>

\* LoadBalancer.AddEngine
AddEngine(engineID, capacity) ==
    /\ IF lbKind = "consistent-hash"
       THEN /\ hashRing' = hashRing \cup {engineID}
            /\ capacities' = MapPut(capacities, engineID, capacity)
            /\ activeWorkflows' = MapPut(activeWorkflows, engineID, 0)
            /\ engines' = engines
       ELSE IF engineID \in Range(engines)
       THEN UNCHANGED <<hashRing, capacities, activeWorkflows, engines>>
       ELSE /\ engines' = Append(engines, engineID)
            /\ capacities' = MapPut(capacities, engineID, capacity)
            /\ activeWorkflows' = MapPut(activeWorkflows, engineID, 0)
            /\ hashRing' = hashRing
    /\ UNCHANGED <<current, lbSel>>

\* LoadBalancer.RemoveEngine
RemoveEngine(engineID) ==
    /\ IF lbKind = "consistent-hash"
       THEN /\ hashRing' = hashRing \ {engineID}
            /\ capacities' = MapDelete(capacities, engineID)
            /\ activeWorkflows' = MapDelete(activeWorkflows, engineID)
            /\ engines' = engines
       ELSE IF engineID \notin Range(engines)
       THEN UNCHANGED <<hashRing, capacities, activeWorkflows, engines>>
       ELSE /\ engines' = SelectSeq(engines, LAMBDA id : id # engineID)
            /\ capacities' = MapDelete(capacities, engineID)
            /\ activeWorkflows' = MapDelete(activeWorkflows, engineID)
            /\ hashRing' = hashRing
    /\ UNCHANGED <<current, lbSel>>

\* LoadBalancer.UpdateEngineCapacity
UpdateEngineCapacity_Ignored(engineID, capacity) ==
    UNCHANGED <<hashRing, capacities, activeWorkflows, engines, current, lbSel>>

UpdateEngineCapacity(engineID, capacity) ==
    /\ capacities' = IF engineID \in DOMAIN capacities
                     THEN MapPut(capacities, engineID, capacity)
                     ELSE capacities
    /\ UNCHANGED <<hashRing, activeWorkflows, engines, current, lbSel>>

\* ConsistentHashLoadBalancer.IncrementActiveWorkflows
IncrementActiveWorkflows(engineID) ==
    /\ activeWorkflows' = MapPut(activeWorkflows, engineID,
                                 MapGet(activeWorkflows, engineID) + 1)
    /\ UNCHANGED <<hashRing, capacities, engines, current, lbSel>>

DecrementActiveWorkflows_Unguarded(engineID) ==
    /\ activeWorkflows' = MapPut(activeWorkflows, engineID,
                                 MapGet(activeWorkflows, engineID) - 1)
    /\ UNCHANGED <<hashRing, capacities, engines, current, lbSel>>

\* ConsistentHashLoadBalancer.DecrementActiveWorkflows
DecrementActiveWorkflows(engineID) ==
    /\ activeWorkflows' = IF MapGet(activeWorkflows, engineID) > 0
                          THEN MapPut(activeWorkflows, engineID,
                                      MapGet(activeWorkflows, engineID) - 1)
                          ELSE activeWorkflows
    /\ UNCHANGED <<hashRing, capacities, engines, current, lbSel>>

\* the balancer's methods called directly
LbAddEngine(engineID, capacity) ==
    AddEngine(engineID, capacity) /\ UNCHANGED <<lbKind, vnodeAt, nonLbVars>>
LbRemoveEngine(engineID) ==
    RemoveEngine(engineID) /\ UNCHANGED <<lbKind, vnodeAt, nonLbVars>>
LbSelectEngine(key) ==
    SelectEngine(key) /\ UNCHANGED <<lbKind, vnodeAt, nonLbVars>>
LbUpdateEngineCapacity(engineID, capacity) ==
    UpdateEngineCapacity(engineID, capacity) /\ UNCHANGED <<lbKind, vnodeAt, nonLbVars>>
LbIncrementActiveWorkflows(engineID) ==
    /\ lbKind = "consistent-hash"
    /\ MapGet(activeWorkflows, engineID) < MaxActive
    /\ IncrementActiveWorkflows(engineID)
    /\ UNCHANGED <<lbKind, vnodeAt, nonLbVars>>
LbDecrementActiveWorkflows(engineID) ==
    /\ lbKind = "consistent-hash"
    /\ DecrementActiveWorkflows(engineID)
    /\ UNCHANGED <<lbKind, vnodeAt, nonLbVars>>

\* NewConsistentHashLoadBalancer / NewRoundRobinLoadBalancer
LbInit(kind, layout) ==
    /\ lbKind = kind
    /\ vnodeAt = layout
    /\ hashRing = {}
    /\ capacities = <<>>
    /\ activeWorkflows = <<>>
    /\ engines = <<>>
    /\ current = 0
    /\ lbSel = NoSel

(***************************************************************************)
(* orchestrator: OrchestratorV2 (ExecuteWorkflow, discovery, execution ids) *)
(***************************************************************************)
DispCalls == 1..MaxDispCalls

\* the engines discovery reports, and the capacity it reports for them
DiscEngineIds == {"e1", "e2"}
DiscCapValues == {1}
WatchCapValues == {1, 2}

\* the engine lists discovery can deliver with capacities from caps
DiscLists(caps) == UNION {[S -> caps] : S \in SUBSET DiscEngineIds}

\* readings of time.Now().UnixNano(); two calls may read the same value
Nanos == {5, 6}

\* the ring position the routing key (the workflow id) hashes to
WorkflowKey(workflowID) == IF workflowID = "w" THEN 0 ELSE 1

NoReq == [workflowID |-> None, executionID |-> <<>>, engineID |-> None,
          resp |-> None, err |-> None, incd |-> 0, decd |-> 0, selections |-> 0,
          version |-> <<>>, builtBy |-> <<>>]

\* %d
RECURSIVE Decimal(_)
Decimal(n) == IF n < 10 THEN <<48 + n>> ELSE Decimal(n \div 10) \o <<48 + (n % 10)>>

\* fmt.Sprintf("exec-%d-%d", nanos, counter)
FormatExecID(nanos, counter) ==
    <<101, 120, 101, 99, 45>> \o Decimal(nanos) \o <<45>> \o Decimal(counter)

NextCounter_Stuck(counter) == counter

\* o.executionCounter++
NextCounter(counter) == counter + 1

\* WorkflowManager.HasWorkflow
HasWorkflow(workflowID) == workflowID \in DOMAIN builders

\* VersionManager.GetLatestVersion(workflowID).Version for a registered workflow
GetLatestVersion(workflowID) == latest[workflowID].Version

\* ExecuteWorkflow from its start to the return of nextExecutionID; the calls are
\* numbered in the order they start
OxStart(d, workflowID, nanos) ==
    /\ dPc[d] = "idle"
    /\ \A c \in DispCalls : c < d => dPc[c] # "idle"
    /\ IF ~HasWorkflow(workflowID)
       THEN /\ dPc' = [dPc EXCEPT ![d] = "returned"]
            /\ dReq' = [dReq EXCEPT ![d].workflowID = workflowID,
                                    ![d].resp = "nil",
                                    ![d].err = "workflow not found"]
            /\ UNCHANGED <<executionCounter, minted>>
       ELSE /\ executionCounter' = NextCounter(executionCounter)
            /\ minted' = Append(minted,
                                [nanos |-> nanos, counter |-> executionCounter',
                                 id |-> FormatExecID(nanos, executionCounter')])
            /\ dPc' = [dPc EXCEPT ![d] = "select"]
            /\ dReq' = [dReq EXCEPT ![d].workflowID = workflowID,
                                    ![d].version = GetLatestVersion(workflowID),
                                    ![d].executionID =
                                        FormatExecID(nanos, executionCounter')]
    /\ UNCHANGED <<oEngines, oMu, discPc, discList, discTodo, nonDispVars>>

\* o.loadBalancer.SelectEngine(workflowID)
OxSelect(d) ==
    /\ dPc[d] = "select"
    /\ LET sel == SelectOutcome(WorkflowKey(dReq[d].workflowID))
       IN  /\ current' = sel.current
           /\ IF sel.err = "panic"
              THEN /\ dPc' = [dPc EXCEPT ![d] = "panicked"]
                   /\ dReq' = [dReq EXCEPT ![d].selections = @ + 1]
              ELSE IF sel.err # "nil"
              THEN /\ dPc' = [dPc EXCEPT ![d] = "returned"]
                   /\ dReq' = [dReq EXCEPT ![d].resp = "nil",
                                           ![d].err = "failed to select engine",
                                           ![d].selections = @ + 1]
              ELSE /\ dPc' = [dPc EXCEPT ![d] = "lookup"]
                   /\ dReq' = [dReq EXCEPT ![d].engineID = sel.engine,
                                           ![d].selections = @ + 1]
    /\ UNCHANGED <<hashRing, capacities, activeWorkflows, engines, lbSel>>
    /\ UNCHANGED <<oEngines, oMu, discPc, discList, discTodo, executionCounter, minted,
                   besideDispLb>>

\* the lookup in o.engines under o.mu.RLock, BuildWorkflow and transport.Connect
OxLookup(d, connected) ==
    /\ dPc[d] = "lookup"
    /\ ~oMu
    /\ IF dReq[d].engineID \notin oEngines
       THEN /\ dPc' = [dPc EXCEPT ![d] = "returned"]
            /\ dReq' = [dReq EXCEPT ![d].resp = "nil", ![d].err = "engine not found"]
       ELSE IF ~builders[dReq[d].workflowID].ok
       THEN /\ dPc' = [dPc EXCEPT ![d] = "returned"]
            /\ dReq' = [dReq EXCEPT ![d].resp = "nil",
                                    ![d].err = "failed to build workflow"]
       ELSE IF ~connected
       THEN /\ dPc' = [dPc EXCEPT ![d] = "returned"]
            /\ dReq' = [dReq EXCEPT ![d].resp = "nil",
                                    ![d].err = "failed to connect to engine",
                                    ![d].builtBy = builders[dReq[d].workflowID].by]
       ELSE /\ dPc' = [dPc EXCEPT ![d] = "connected"]
            /\ dReq' = [dReq EXCEPT ![d].builtBy = builders[dReq[d].workflowID].by]
    /\ UNCHANGED <<oEngines, oMu, discPc, discList, discTodo, executionCounter, minted,
                   nonDispVars>>

\* o.loadBalancer.(*ConsistentHashLoadBalancer).IncrementActiveWorkflows(engineID);
\* the type assertion panics when the balancer is the round-robin one
OxIncrement(d) ==
    /\ dPc[d] = "connected"
    /\ IF lbKind # "consistent-hash"
       THEN /\ dPc' = [dPc EXCEPT ![d] = "panicked"]
            /\ dReq' = dReq
            /\ UNCHANGED <<hashRing, capacities, activeWorkflows, engines, current, lbSel>>
       ELSE /\ IncrementActiveWorkflows(dReq[d].engineID)
            /\ dPc' = [dPc EXCEPT ![d] = "dispatched"]
            /\ dReq' = [dReq EXCEPT ![d].incd = @ + 1]
    /\ UNCHANGED <<oEngines, oMu, discPc, discList, discTodo, executionCounter, minted,
                   besideDispLb>>

\* conn.ExecuteWorkflow returns, then the deferred DecrementActiveWorkflows runs
OxReturn(d, ok) ==
    /\ dPc[d] = "dispatched"
    /\ DecrementActiveWorkflows(dReq[d].engineID)
    /\ dPc' = [dPc EXCEPT ![d] = "returned"]
    /\ dReq' = [dReq EXCEPT ![d].decd = @ + 1,
                            ![d].resp = IF ok THEN "success" ELSE "failure",
                            ![d].err = IF ok THEN "nil" ELSE "transport error"]
    /\ UNCHANGED <<oEngines, oMu, discPc, discList, discTodo, executionCounter, minted,
                   besideDispLb>>

\* the discovery callback onChange(engines): o.mu.Lock()
DiscOnChange(list) ==
    /\ discPc = "idle"
    /\ ~oMu
    /\ oMu' = TRUE
    /\ discPc' = "running"
    /\ discList' = list
    /\ discTodo' = DOMAIN list
    /\ UNCHANGED <<oEngines, executionCounter, minted, dPc, dReq, nonDispVars>>

\* one iteration of the first loop of onChange
DiscAddStep(engineID) ==
    /\ discPc = "running"
    /\ engineID \in discTodo
    /\ discTodo' = discTodo \ {engineID}
    /\ IF engineID \notin oEngines
       THEN /\ oEngines' = oEngines \cup {engineID}
            /\ AddEngine(engineID, discList[engineID])
       ELSE /\ oEngines' = oEngines
            /\ UpdateEngineCapacity(engineID, discList[engineID])
    /\ UNCHANGED <<oMu, discPc, discList, executionCounter, minted, dPc, dReq,
                   besideDispLb>>

\* one iteration of the second loop of onChange that finds an engine to remove
DiscRemoveStep(engineID) ==
    /\ discPc = "running"
    /\ discTodo = {}
    /\ engineID \in oEngines \ DOMAIN discList
    /\ oEngines' = oEngines \ {engineID}
    /\ RemoveEngine(engineID)
    /\ UNCHANGED <<oMu, discPc, discList, discTodo, executionCounter, minted, dPc, dReq,
                   besideDispLb>>

\* onChange returns: the deferred o.mu.Unlock()
DiscUnlock ==
    /\ discPc = "running"
    /\ discTodo = {}
    /\ oEngines \subseteq DOMAIN discList
    /\ oMu' = FALSE
    /\ discPc' = "idle"
    /\ UNCHANGED <<oEngines, discList, discTodo, executionCounter, minted, dPc, dReq,
                   nonDispVars>>

\* the one workflow the dispatcher is given
DispRegister ==
    /\ regCalls = 0
    /\ RegisterWorkflow("w", V_1_0_0, [ok |-> TRUE, refs |-> {}], "nil")

\* NewOrchestratorV2, before the first discovery callback
DispInit ==
    /\ oEngines = {}
    /\ oMu = FALSE
    /\ discPc = "idle"
    /\ discList = <<>>
    /\ discTodo = {}
    /\ executionCounter = 0
    /\ minted = <<>>
    /\ dPc = [d \in DispCalls |-> "idle"]
    /\ dReq = [d \in DispCalls |-> NoReq]

(***************************************************************************)
(* orchestrator: SubWorkflowCoordinator                                    *)
(***************************************************************************)
SubCalls == 1..MaxSubCalls
ParentIds == {"p", "q"}

\* fmt.Sprintf("%s-sub-%d", parentExecutionID, time.Now().UnixNano())
SubExecID(parentExecutionID, nanos) == <<parentExecutionID, "-sub-", nanos>>

NoCancel == [pc |-> "idle", parent |-> None, children |-> <<>>, idx |-> 0, target |-> 0]

\* ExecuteSubWorkflow up to `return executionID, nil`; the calls are numbered in the
\* order they are made
ExecuteSubWorkflow(k, parentExecutionID, nanos) ==
    /\ subPc[k] = "idle"
    /\ \A c \in SubCalls : c < k => subPc[c] # "idle"
    /\ LET executionID == SubExecID(parentExecutionID, nanos)
       IN  /\ subExecs' = (k :> [ExecutionID |-> executionID,
                                 ParentExecutionID |-> parentExecutionID,
                                 Status |-> "PENDING", ended |-> FALSE]) @@ subExecs
           /\ activeSubWorkflows' = (executionID :> k) @@ activeSubWorkflows
           /\ parentToChildren' =
                  (parentExecutionID :>
                       Append(IF parentExecutionID \in DOMAIN parentToChildren
                              THEN parentToChildren[parentExecutionID] ELSE <<>>,
                              executionID)) @@ parentToChildren
    /\ subPc' = [subPc EXCEPT ![k] = "spawned"]
    /\ UNCHANGED <<cancel, stopsIssued, cancelReturned, nonSubVars>>

\* the goroutine: exec.Status = "RUNNING"
SubSetRunning(k) ==
    /\ subPc[k] = "spawned"
    /\ subExecs' = [subExecs EXCEPT ![k].Status = "RUNNING"]
    /\ subPc' = [subPc EXCEPT ![k] = "dispatched"]
    /\ UNCHANGED <<activeSubWorkflows, parentToChildren, cancel, stopsIssued,
                   cancelReturned, nonSubVars>>

\* the goroutine: swc.orchestrator.ExecuteWorkflow returns and the status is set
SubDispatchReturns(k, ok) ==
    /\ subPc[k] = "dispatched"
    /\ subExecs' = [subExecs EXCEPT ![k].Status = IF ok THEN "COMPLETED" ELSE "FAILED"]
    /\ subPc' = [subPc EXCEPT ![k] = "deferred"]
    /\ UNCHANGED <<activeSubWorkflows, parentToChildren, cancel, stopsIssued,
                   cancelReturned, nonSubVars>>

\* the goroutine's deferred function sets EndTime
SubDeferred(k) ==
    /\ subPc[k] = "deferred"
    /\ subExecs' = [subExecs EXCEPT ![k].ended = TRUE]
    /\ subPc' = [subPc EXCEPT ![k] = "done"]
    /\ UNCHANGED <<activeSubWorkflows, parentToChildren, cancel, stopsIssued,
                   cancelReturned, nonSubVars>>

\* CancelChildren: children := swc.parentToChildren[parentExecutionID]
CancelChildren(parentExecutionID) ==
    /\ cancel.pc = "idle"
    /\ cancel' = [pc |-> "loop", parent |-> parentExecutionID,
                  children |-> IF parentExecutionID \in DOMAIN parentToChildren
                               THEN parentToChildren[parentExecutionID] ELSE <<>>,
                  idx |-> 1, target |-> 0]
    /\ UNCHANGED <<subExecs, activeSubWorkflows, parentToChildren, subPc, stopsIssued,
                   cancelReturned, nonSubVars>>

\* CancelChildren: the lookup of one child and the test of its status
CancelLook ==
    /\ cancel.pc = "loop"
    /\ cancel.idx <= Len(cancel.children)
    /\ LET childID == cancel.children[cancel.idx]
       IN  IF childID \in DOMAIN activeSubWorkflows
              /\ subExecs[activeSubWorkflows[childID]].Status = "RUNNING"
           THEN cancel' = [cancel EXCEPT !.pc = "mark",
                                         !.target = activeSubWorkflows[childID]]
           ELSE cancel' = [cancel EXCEPT !.idx = @ + 1]
    /\ UNCHANGED <<subExecs, activeSubWorkflows, parentToChildren, subPc, stopsIssued,
                   cancelReturned, nonSubVars>>

\* CancelChildren: exec.Status = "CANCELLED" under the lock; nothing is sent to an engine
CancelMark ==
    /\ cancel.pc = "mark"
    /\ subExecs' = [subExecs EXCEPT ![cancel.target].Status = "CANCELLED"]
    /\ cancel' = [cancel EXCEPT !.pc = "loop", !.idx = @ + 1, !.target = 0]
    /\ UNCHANGED <<activeSubWorkflows, parentToChildren, subPc, stopsIssued,
                   cancelReturned, nonSubVars>>

\* CancelChildren: return nil
CancelReturn ==
    /\ cancel.pc = "loop"
    /\ cancel.idx > Len(cancel.children)
    /\ cancelReturned' = cancelReturned \cup
           {activeSubWorkflows[childID] : childID \in
               {c \in Range(cancel.children) :
                   subExecs[activeSubWorkflows[c]].Status \notin {"COMPLETED", "FAILED"}}}
    /\ cancel' = NoCancel
    /\ UNCHANGED <<subExecs, activeSubWorkflows, parentToChildren, subPc, stopsIssued,
                   nonSubVars>>

\* NewSubWorkflowCoordinator
SubInit ==
    /\ subExecs = <<>>
    /\ activeSubWorkflows = <<>>
    /\ parentToChildren = <<>>
    /\ subPc = [k \in SubCalls |-> "idle"]
    /\ cancel = NoCancel
    /\ stopsIssued = {}
    /\ cancelReturned = {}

(***************************************************************************)
(* orchestrator: Monitor (RecordEvent, Subscribe, processEvents)           *)
(***************************************************************************)
ExecutionIds == {"x1", "x2"}
NoEvent == [id |-> 0, ExecutionID |-> None, EngineID |-> None]
ProcIdle == [pc |-> "idle", event |-> NoEvent, idx |-> 0]

SendOutcome_NoDefault(len, cap) == IF len < cap THEN "sent" ELSE "blocked"

\* select { case ch <- event: default: }: what happens to the sender
SendOutcome(len, cap) == IF len < cap THEN "sent" ELSE "dropped"

ChanSend_Front(ch, event) == <<event>> \o ch

\* ch <- event on a buffered channel with room
ChanSend(ch, event) == Append(ch, event)

\* the select of Monitor.RecordEvent on the open channel; the events are numbered in
\* the order the calls are made
EventsSelect(engineID, executionID) ==
    /\ Len(recorded) < MaxEvents
    /\ \A i \in 1..Len(recorded) : recorded[i] # "blocked"
    /\ LET event == [id |-> Len(recorded) + 1, ExecutionID |-> executionID, EngineID |-> engineID]
           outcome == SendOutcome(Len(events), InboundCap)
       IN  /\ recorded' = Append(recorded, outcome)
           /\ IF outcome = "sent"
              THEN /\ events' = ChanSend(events, event)
                   /\ accepted' = Append(accepted, event)
              ELSE UNCHANGED <<events, accepted>>
    /\ UNCHANGED <<subscribers, proc, received>>

\* Monitor.RecordEvent on a Monitor that is not being stopped
RecordEvent(executionID) ==
    /\ EventsSelect(None, executionID)
    /\ UNCHANGED nonMonVars

\* Monitor.Subscribe: needs subscribersMu, which processEvents holds during a fan-out
Subscribe ==
    /\ Len(subscribers) < MaxSubscribers
    /\ proc.pc = "idle"
    /\ subscribers' = Append(subscribers, <<>>)
    /\ received' = Append(received, <<>>)
    /\ UNCHANGED <<events, proc, recorded, accepted, nonMonVars>>

\* processEvents: event := <-m.events, then subscribersMu.RLock()
ProcTake ==
    /\ proc.pc = "idle"
    /\ events # <<>>
    /\ proc' = [pc |-> "fanout", event |-> Head(events), idx |-> 1]
    /\ events' = Tail(events)
    /\ UNCHANGED <<subscribers, recorded, accepted, received, nonMonVars>>

\* processEvents: one iteration of the loop over the subscribers
ProcDeliver ==
    /\ proc.pc = "fanout"
    /\ proc.idx <= Len(subscribers)
    /\ LET outcome == SendOutcome(Len(subscribers[proc.idx]), SubscriberCap)
       IN  /\ subscribers' = IF outcome = "sent"
                             THEN [subscribers EXCEPT ![proc.idx] = ChanSend(@, proc.event)]
                             ELSE subscribers
           /\ proc' = IF outcome = "blocked"
                      THEN [proc EXCEPT !.pc = "blocked"]
                      ELSE [proc EXCEPT !.idx = @ + 1]
    /\ UNCHANGED <<events, recorded, accepted, received, nonMonVars>>

\* processEvents: the loop is over, subscribersMu.RUnlock()
ProcUnlock ==
    /\ proc.pc = "fanout"
    /\ proc.idx > Len(subscribers)
    /\ proc' = ProcIdle
    /\ UNCHANGED <<events, subscribers, recorded, accepted, received, nonMonVars>>

\* a subscriber reads one event from the channel Subscribe gave it
SubscriberReceive(i) ==
    /\ i \in 1..Len(subscribers)
    /\ subscribers[i] # <<>>
    /\ received' = [received EXCEPT ![i] = Append(@, Head(subscribers[i]))]
    /\ subscribers' = [subscribers EXCEPT ![i] = Tail(@)]
    /\ UNCHANGED <<events, proc, recorded, accepted, nonMonVars>>

\* NewMonitor and Start
MonInit ==
    /\ events = <<>>
    /\ subscribers = <<>>
    /\ proc = ProcIdle
    /\ recorded = <<>>
    /\ accepted = <<>>
    /\ received = <<>>

(***************************************************************************)
(* orchestrator: Monitor.Stop beside RecordEvent and AttachToEngineGRPC.   *)
(* A runtime panic ends the process: no step is taken after one.           *)
(***************************************************************************)
StreamEngines == {"e1", "e2"}
NoStream == [pc |-> "none", ExecutionID |-> None]

\* m.ctx, and every stream context derived from it, is done once Stop called m.cancel()
CtxDone == stopPc # "running"
\* close(m.events) has run
EventsClosed == stopPc \notin {"running", "cancelled"}

\* m.events <- event inside a select: a send on a closed channel panics, default or not
SendPanics == EventsClosed

\* Monitor.RecordEvent called by any goroutine of the program
RecordEventCall(executionID) ==
    /\ monPanic = None
    /\ IF SendPanics
       THEN /\ monPanic' = "send on closed channel"
            /\ UNCHANGED <<stopPc, grpcStreams, streams, monVars, nonMonitorVars>>
       ELSE RecordEvent(executionID)

\* Monitor.AttachToEngineGRPC: the registry write under grpcStreamsMu, then wg.Add(1)
\* and the goroutine
AttachToEngineGRPC(engineID) ==
    /\ monPanic = None
    /\ streams[engineID].pc = "none"
    /\ IF grpcStreams.nil
       THEN /\ monPanic' = "assignment to entry in nil map"
            /\ UNCHANGED <<grpcStreams, streams>>
       ELSE /\ grpcStreams' = [grpcStreams EXCEPT !.ids = @ \cup {engineID}]
            /\ streams' = [streams EXCEPT ![engineID].pc = "waiting"]
            /\ UNCHANGED monPanic
    /\ UNCHANGED <<stopPc, monVars, nonMonitorVars>>

\* the stream goroutine: case event, ok := <-eventStream with an event on the stream
StreamTake(engineID, executionID) ==
    /\ monPanic = None
    /\ streams[engineID].pc = "waiting"
    /\ streams' = [streams EXCEPT ![engineID] = [pc |-> "recording", ExecutionID |-> executionID]]
    /\ UNCHANGED <<stopPc, grpcStreams, monPanic, monVars, nonMonitorVars>>

\* the stream goroutine: m.RecordEvent(monitorEvent), then back to the select
StreamRecord(engineID) ==
    /\ streams[engineID].pc = "recording"
    /\ streams' = [streams EXCEPT ![engineID] = [pc |-> "waiting", ExecutionID |-> None]]
    /\ monPanic = None
    /\ IF SendPanics
       THEN /\ monPanic' = "send on closed channel"
            /\ UNCHANGED <<stopPc, grpcStreams, monVars, nonMonitorVars>>
       ELSE /\ EventsSelect(engineID, streams[engineID].ExecutionID)
            /\ UNCHANGED <<stopPc, grpcStreams, monPanic, nonMonitorVars>>

\* the stream goroutine: case <-streamCtx.Done(), then the deferred delete (a no-op on
\* a nil map) and wg.Done()
StreamReturn(engineID) ==
    /\ monPanic = None
    /\ streams[engineID].pc = "waiting"
    /\ CtxDone
    /\ streams' = [streams EXCEPT ![engineID].pc = "returned"]
    /\ grpcStreams' = [grpcStreams EXCEPT !.ids = @ \ {engineID}]
    /\ UNCHANGED <<stopPc, monPanic, monVars, nonMonitorVars>>

\* processEvents: case <-m.ctx.Done(), or a receive from the closed and drained channel
ProcReturn ==
    /\ monPanic = None
    /\ proc.pc = "idle"
    /\ CtxDone \/ (EventsClosed /\ events = <<>>)
    /\ proc' = [proc EXCEPT !.pc = "returned"]
    /\ UNCHANGED <<events, subscribers, recorded, accepted, received, stopVars, nonMonitorVars>>

\* Monitor.Stop: m.cancel()
StopCancel ==
    /\ monPanic = None
    /\ stopPc = "running"
    /\ stopPc' = "cancelled"
    /\ UNCHANGED <<grpcStreams, streams, monPanic, monVars, nonMonitorVars>>

\* Monitor.Stop: close(m.events)
StopClose ==
    /\ monPanic = None
    /\ stopPc = "cancelled"
    /\ stopPc' = "closed"
    /\ UNCHANGED <<grpcStreams, streams, monPanic, monVars, nonMonitorVars>>

\* Monitor.Stop: under grpcStreamsMu, cancel every stream and m.grpcStreams = nil
StopClearStreams ==
    /\ monPanic = None
    /\ stopPc = "closed"
    /\ stopPc' = "cleared"
    /\ grpcStreams' = [nil |-> TRUE, ids |-> {}]
    /\ UNCHANGED <<streams, monPanic, monVars, nonMonitorVars>>

\* Monitor.Stop: m.wg.Wait() returns, then the subscriber channels are closed and
\* m.subscribers = nil
StopWait ==
    /\ monPanic = None
    /\ stopPc = "cleared"
    /\ proc.pc = "returned"
    /\ \A engineID \in StreamEngines : streams[engineID].pc \in {"none", "returned"}
    /\ stopPc' = "stopped"
    /\ subscribers' = <<>>
    /\ UNCHANGED <<events, proc, recorded, accepted, received, grpcStreams, streams, monPanic,
                   nonMonitorVars>>

\* NewMonitor: the context is live, the registry is an empty map
StopInit ==
    /\ stopPc = "running"
    /\ grpcStreams = [nil |-> FALSE, ids |-> {}]
    /\ streams = [engineID \in StreamEngines |-> NoStream]
    /\ monPanic = None

(***************************************************************************)
(* orchestrator: the local Orchestrator. Every engine is registered with   *)
(* its initial DAG engine (0), the workflow is registered and its Builder  *)
(* and PreprocessDAG succeed; the engine a call builds is named after the  *)
(* call. The channels hold 100 messages and never fill here.               *)
(***************************************************************************)
MaxLocCalls == 2
LocCalls == 1..MaxLocCalls
LocEngines == {"e1", "e2"}
NoLocReq == [engineID |-> None, RequestID |-> 0, result |-> None, responded |-> FALSE]
NoRun == [pc |-> "none", engineID |-> None, Engine |-> 0]

\* the Run this request started has returned and its response was offered to Outbound
Responded(r) == r # 0 /\ runs[r].pc \in {"responded", "notified", "done"}

\* Orchestrator.ExecuteWorkflow: the workflow lookup and the scan for an idle wrapper;
\* the map is iterated in any order, so any idle wrapper can be the first one found
LocSelect(c, engineID) ==
    /\ lPc[c] = "idle"
    /\ IF \E e \in LocEngines : wrappers[e].Status = "idle"
       THEN /\ wrappers[engineID].Status = "idle"
            /\ lPc' = [lPc EXCEPT ![c] = "selected"]
            /\ lReq' = [lReq EXCEPT ![c].engineID = engineID]
       ELSE /\ engineID = "e1"
            /\ lPc' = [lPc EXCEPT ![c] = "returned"]
            /\ lReq' = [lReq EXCEPT ![c].result = "no available engine"]
    /\ UNCHANGED <<wrappers, requestID, runs, nonLocVars>>

\* ExecuteWorkflow: workflow.Builder(), then selectedEngine.Engine = engine under the
\* wrapper's lock, then PreprocessDAG
LocInstall(c) ==
    /\ lPc[c] = "selected"
    /\ wrappers' = [wrappers EXCEPT ![lReq[c].engineID].Engine = c]
    /\ lPc' = [lPc EXCEPT ![c] = "installed"]
    /\ UNCHANGED <<requestID, lReq, runs, nonLocVars>>

\* ExecuteWorkflow: nextRequestID and SendMessage
LocSend(c) ==
    /\ lPc[c] = "installed"
    /\ requestID' = requestID + 1
    /\ lReq' = [lReq EXCEPT ![c].RequestID = requestID + 1]
    /\ wrappers' = [wrappers EXCEPT ![lReq[c].engineID].Inbound =
                       Append(@, [Type |-> "workflow_request", RequestID |-> requestID + 1])]
    /\ lPc' = [lPc EXCEPT ![c] = "waiting"]
    /\ UNCHANGED <<runs, nonLocVars>>

\* ExecuteWorkflow: case responseMsg := <-selectedEngine.Outbound
LocReceive(c) ==
    /\ lPc[c] = "waiting"
    /\ wrappers[lReq[c].engineID].Outbound # <<>>
    /\ LET responseMsg == Head(wrappers[lReq[c].engineID].Outbound)
       IN  lReq' = [lReq EXCEPT ![c].result =
                       IF /\ responseMsg.Type = "workflow_response"
                          /\ responseMsg.RequestID = lReq[c].RequestID
                       THEN "response"
                       ELSE "unexpected response",
                                ![c].responded = Responded(lReq[c].RequestID)]
    /\ wrappers' = [wrappers EXCEPT ![lReq[c].engineID].Outbound = Tail(@)]
    /\ lPc' = [lPc EXCEPT ![c] = "returned"]
    /\ UNCHANGED <<requestID, runs, nonLocVars>>

\* ExecuteWorkflow: case <-time.After(timeout), with nothing to receive
LocTimeout(c) ==
    /\ lPc[c] = "waiting"
    /\ wrappers[lReq[c].engineID].Outbound = <<>>
    /\ lReq' = [lReq EXCEPT ![c].result = "workflow execution timeout",
                            ![c].responded = Responded(lReq[c].RequestID)]
    /\ lPc' = [lPc EXCEPT ![c] = "returned"]
    /\ UNCHANGED <<wrappers, requestID, runs, nonLocVars>>

\* processMessages takes a request and handleWorkflowRequest marks the wrapper running
\* and starts the goroutine
HandleWorkflowRequest(engineID) ==
    /\ wrappers[engineID].Inbound # <<>>
    /\ LET msg == Head(wrappers[engineID].Inbound)
       IN  /\ wrappers' = [wrappers EXCEPT ![engineID].Inbound = Tail(@),
                                           ![engineID].Status = "running"]
           /\ runs' = [runs EXCEPT ![msg.RequestID] =
                           [pc |-> "spawned", engineID |-> engineID, Engine |-> 0]]
    /\ UNCHANGED <<requestID, lPc, lReq, nonLocVars>>

\* the goroutine reads ew.Engine and enters Run
RunEnter(r) ==
    /\ runs[r].pc = "spawned"
    /\ runs' = [runs EXCEPT ![r].pc = "running", ![r].Engine = wrappers[runs[r].engineID].Engine]
    /\ UNCHANGED <<wrappers, requestID, lPc, lReq, nonLocVars>>

\* the goroutine: Run has returned, the response goes to Outbound
RunRespond(r) ==
    /\ runs[r].pc = "running"
    /\ wrappers' = [wrappers EXCEPT ![runs[r].engineID].Outbound =
                       Append(@, [Type |-> "workflow_response", RequestID |-> r])]
    /\ runs' = [runs EXCEPT ![r].pc = "responded"]
    /\ UNCHANGED <<requestID, lPc, lReq, nonLocVars>>

\* the goroutine: the status update goes to Outbound
RunStatusUpdate(r) ==
    /\ runs[r].pc = "responded"
    /\ wrappers' = [wrappers EXCEPT ![runs[r].engineID].Outbound =
                       Append(@, [Type |-> "status_update", RequestID |-> 0])]
    /\ runs' = [runs EXCEPT ![r].pc = "notified"]
    /\ UNCHANGED <<requestID, lPc, lReq, nonLocVars>>

\* the goroutine's deferred function: the wrapper is idle again
RunDeferred(r) ==
    /\ runs[r].pc = "notified"
    /\ wrappers' = [wrappers EXCEPT ![runs[r].engineID].Status = "idle"]
    /\ runs' = [runs EXCEPT ![r].pc = "done"]
    /\ UNCHANGED <<requestID, lPc, lReq, nonLocVars>>

\* monitorEngineMessages: msg := <-wrapper.Outbound, and the message is dropped
MonitorEngineMessages(engineID) ==
    /\ wrappers[engineID].Outbound # <<>>
    /\ wrappers' = [wrappers EXCEPT ![engineID].Outbound = Tail(@)]
    /\ UNCHANGED <<requestID, lPc, lReq, runs, nonLocVars>>

\* NewOrchestrator, then RegisterEngine for every engine
LocInit ==
    /\ wrappers = [e \in LocEngines |->
                      [Status |-> "idle", Engine |-> 0, Inbound |-> <<>>, Outbound |-> <<>>]]
    /\ requestID = 0
    /\ lPc = [c \in LocCalls |-> "idle"]
    /\ lReq = [c \in LocCalls |-> NoLocReq]
    /\ runs = [r \in LocCalls |-> NoRun]

(***************************************************************************)
(* spec: WorkflowSpec.Validate, as run by ParseYAMLFromBytes.              *)
(* Strings whose characters matter are sequences of character codes.       *)
(***************************************************************************)
IsDigit(c) == c \in 48..57
IsLower(c) == c \in 97..122
IsAlnum(c) == IsDigit(c) \/ IsLower(c) \/ c \in 65..90
Digits(str) == str # <<>> /\ \A k \in 1..Len(str) : IsDigit(str[k])
Alnums(str) == str # <<>> /\ \A k \in 1..Len(str) : IsAlnum(str[k])

\* regexp ^[a-zA-Z0-9_-]+$
isValidID(id) ==
    id # <<>> /\ \A k \in 1..Len(id) : IsAlnum(id[k]) \/ id[k] = 95 \/ id[k] = 45

\* (\+[a-zA-Z0-9]+)?$
BuildSuffix(str) == str = <<>> \/ (str[1] = 43 /\ Alnums(Tail(str)))

\* (-[a-zA-Z0-9]+)?(\+[a-zA-Z0-9]+)?$
PreReleaseSuffix(str) ==
    \/ BuildSuffix(str)
    \/ /\ str # <<>>
       /\ str[1] = 45
       /\ \E m \in 2..Len(str) :
             Alnums(SubSeq(str, 2, m)) /\ BuildSuffix(SubSeq(str, m + 1, Len(str)))

\* regexp ^v?\d+\.\d+\.\d+(-[a-zA-Z0-9]+)?(\+[a-zA-Z0-9]+)?$
isValidVersion(version) ==
    LET str == IF version # <<>> /\ version[1] = 118 THEN Tail(version) ELSE version
    IN  \E i \in 1..Len(str), j \in 1..Len(str), k \in 1..Len(str) :
            /\ i < j /\ j < k
            /\ Digits(SubSeq(str, 1, i - 1)) /\ str[i] = 46
            /\ Digits(SubSeq(str, i + 1, j - 1)) /\ str[j] = 46
            /\ Digits(SubSeq(str, j + 1, k))
            /\ PreReleaseSuffix(SubSeq(str, k + 1, Len(str)))

\* at most 253 characters, regexp ^[a-z0-9]([a-z0-9-]*[a-z0-9])?$
isValidK8sName(name) ==
    /\ Len(name) > 0 /\ Len(name) <= 253
    /\ \A k \in 1..Len(name) : IsDigit(name[k]) \/ IsLower(name[k]) \/ name[k] = 45
    /\ name[1] # 45 /\ name[Len(name)] # 45

\* strings.ToUpper
ToUpper(str) == [k \in 1..Len(str) |-> IF IsLower(str[k]) THEN str[k] - 32 ELSE str[k]]

\* len(strings.Fields(str)): the runs of characters that are not spaces
FieldCount(str) ==
    Cardinality({k \in 1..Len(str) : str[k] # 32 /\ (k = 1 \/ str[k - 1] = 32)})

\* "GET", "POST", "PUT", "DELETE", "PATCH"
validMethods ==
    {<<71, 69, 84>>, <<80, 79, 83, 84>>, <<80, 85, 84>>, <<68, 69, 76, 69, 84, 69>>,
     <<80, 65, 84, 67, 72>>}

\* a nil pointer
Nil == [nil |-> TRUE]

\* WorkflowMetadata.Validate
MetadataValidate(wm) ==
    IF wm.ID = <<>> THEN "id is required"
    ELSE IF ~isValidID(wm.ID) THEN "id must be alphanumeric with hyphens and underscores only"
    ELSE IF wm.Name = "" THEN "name is required"
    ELSE IF wm.Version = <<>> THEN "version is required"
    ELSE IF ~isValidVersion(wm.Version) THEN "version must be a valid semantic version"
    ELSE "nil"

\* ExecutorSpec.Validate
ExecutorValidate(es) ==
    IF es.Type = "" THEN "type is required"
    ELSE IF es.Type \notin {"lua", "shell"} THEN "unsupported executor type"
    ELSE IF es.Type = "lua" /\ es.Code = "" THEN "code is required for lua executor"
    ELSE "nil"

\* NodeSpec.Validate
NodeValidate(ns) ==
    IF ns.ID = <<>> THEN "id is required"
    ELSE IF ~isValidID(ns.ID) THEN "id must be alphanumeric with hyphens and underscores only"
    ELSE IF ExecutorValidate(ns.Executor) # "nil" THEN "executor"
    ELSE "nil"

\* HTTPTriggerSpec.Validate
HTTPTriggerValidate(hts) ==
    IF hts.Port <= 0 \/ hts.Port > 65535 THEN "port must be between 1 and 65535"
    ELSE IF hts.Path = <<>> THEN "path is required"
    ELSE IF hts.Path[1] # 47 THEN "path must start with '/'"
    ELSE IF hts.Method # <<>> /\ ToUpper(hts.Method) \notin validMethods
         THEN "invalid HTTP method"
    ELSE "nil"

\* CronTriggerSpec.Validate
CronTriggerValidate(cts) ==
    IF cts.Schedule = <<>> THEN "schedule is required"
    ELSE IF FieldCount(cts.Schedule) # 6 THEN "cron schedule must have 6 fields"
    ELSE "nil"

\* TriggersSpec.Validate
TriggersValidate(ts) ==
    IF ~ts.HTTP.nil /\ HTTPTriggerValidate(ts.HTTP) # "nil" THEN "http"
    ELSE IF ~ts.Cron.nil /\ CronTriggerValidate(ts.Cron) # "nil" THEN "cron"
    ELSE "nil"

\* SecretRef.Validate
SecretValidate(sr) ==
    IF sr.Name = <<>> THEN "name is required"
    ELSE IF ~isValidK8sName(sr.Name) THEN "secret name must be a valid Kubernetes name"
    ELSE "nil"

\* ConfigSpec.Validate
ConfigValidate(cs) ==
    IF \E k \in 1..Len(cs.Secrets) : SecretValidate(cs.Secrets[k]) # "nil"
    THEN "secrets"
    ELSE "nil"

DuplicateNodeID_Unchecked(nodes, i) == FALSE

\* nodeIDs[node.ID] in the first loop of WorkflowSpecDef.Validate: an earlier
\* node has this id
DuplicateNodeID(nodes, i) == \E j \in 1..(i - 1) : nodes[j].ID = nodes[i].ID

\* !nodeIDs[dep] in the second loop: node i depends on an id no node has
MissingDependency(nodes, i) ==
    \E k \in 1..Len(nodes[i].Dependencies) :
        \A j \in 1..Len(nodes) : nodes[j].ID # nodes[i].Dependencies[k]

\* WorkflowSpecDef.Validate: the first error met, or "nil"
SpecDefValidate(wsd) ==
    LET nodes == wsd.Nodes
        firstLoop == {i \in 1..Len(nodes) :
                        NodeValidate(nodes[i]) # "nil" \/ DuplicateNodeID(nodes, i)}
        secondLoop == {i \in 1..Len(nodes) : MissingDependency(nodes, i)}
    IN  IF Len(nodes) = 0 THEN "at least one node is required"
        ELSE IF firstLoop # {}
             THEN IF NodeValidate(nodes[SetMin(firstLoop)]) # "nil"
                  THEN "node"
                  ELSE "duplicate node id"
        ELSE IF secondLoop # {} THEN "depends on non-existent node"
        ELSE IF ~wsd.Triggers.nil /\ TriggersValidate(wsd.Triggers) # "nil" THEN "triggers"
        ELSE IF ~wsd.Configuration.nil /\ ConfigValidate(wsd.Configuration) # "nil"
             THEN "configuration"
        ELSE "nil"

\* WorkflowSpec.Validate: the collected errors, none when it returns nil
Validate(ws) ==
    (IF ws.APIVersion = "" THEN <<"apiVersion is required">>
     ELSE IF ws.APIVersion # "workflows/v1" THEN <<"unsupported apiVersion">>
     ELSE <<>>)
    \o (IF ws.Kind = "" THEN <<"kind is required">>
        ELSE IF ws.Kind # "Workflow" THEN <<"unsupported kind">>
        ELSE <<>>)
    \o (IF MetadataValidate(ws.Metadata) # "nil" THEN <<"metadata">> ELSE <<>>)
    \o (IF SpecDefValidate(ws.Spec) # "nil" THEN <<SpecDefValidate(ws.Spec)>> ELSE <<>>)

\* the documents the parser is given, after yaml.Unmarshal; the strings are
\* "a", "b", "a " (not an id), "test", "/h", "post" and "* * * * *"
Id_a == <<97>>
Id_b == <<98>>
Id_blank == <<97, 32>>
NodeSpecs ==
    [ID : {Id_a, Id_b, Id_blank},
     Dependencies : {<<>>, <<Id_a>>, <<Id_b>>},
     Executor : {[Type |-> "lua", Code |-> "print('test')"], [Type |-> "lua", Code |-> ""]}]
NodeLists == UNION {[1..n -> NodeSpecs] : n \in 0..MaxSpecNodes}
Metadatas ==
    {[ID |-> <<116, 101, 115, 116>>, Name |-> "Test", Version |-> V_1_0_0],
     [ID |-> <<116, 101, 115, 116>>, Name |-> "Test", Version |-> V_latest],
     [ID |-> <<>>, Name |-> "Test", Version |-> V_1_0_0_rc]}
TriggersSpecs ==
    {Nil,
     [nil |-> FALSE, Cron |-> Nil,
      HTTP |-> [nil |-> FALSE, Port |-> 8080, Path |-> <<47, 104>>,
               Method |-> <<112, 111, 115, 116>>]],
     [nil |-> FALSE, HTTP |-> Nil, Cron |-> [nil |-> FALSE, Schedule |-> <<42, 32, 42, 32, 42, 32, 42, 32, 42>>]]}
ConfigSpecs ==
    {Nil,
     [nil |-> FALSE, Secrets |-> <<[Name |-> Id_a, Key |-> "k"]>>],
     [nil |-> FALSE, Secrets |-> <<[Name |-> Id_blank, Key |-> "k"]>>]}
WorkflowSpecs ==
    [nil : {FALSE},
     APIVersion : {"", "workflows/v1", "workflows/v2"},
     Kind : {"Workflow", ""},
     Metadata : Metadatas,
     Spec : [Nodes : NodeLists, Triggers : TriggersSpecs, Configuration : ConfigSpecs]]

NotParsed == [done |-> FALSE, spec |-> Nil, err |-> <<>>]

\* ParseYAMLFromBytes, from the unmarshalled document on
ParseYAMLFromBytes ==
    /\ ~parsed.done
    /\ parsed' = IF Validate(workflowSpec) # <<>>
                 THEN [done |-> TRUE, spec |-> Nil, err |-> Validate(workflowSpec)]
                 ELSE [done |-> TRUE, spec |-> workflowSpec, err |-> <<>>]
    /\ UNCHANGED <<workflowSpec, nonValVars>>

\* no document is being parsed
ValInit ==
    /\ workflowSpec = Nil
    /\ parsed = [done |-> TRUE, spec |-> Nil, err |-> <<>>]

\* the components added after the coordinator, freshly constructed
MoreInit ==
    /\ MonInit
    /\ ValInit
    /\ preCalls = 0
    /\ StopInit
    /\ LocInit

\* the services beside the scheduler and the registry, freshly constructed
ServicesInit ==
    /\ EsInit(1)
    /\ LbInit("consistent-hash", LayoutBlocks)
    /\ DispInit
    /\ SubInit
    /\ MoreInit

(***************************************************************************)
(* Specifications                                                          *)
(***************************************************************************)
\* an engine holding the nodes of graph g, as NewNode and AddNode leave it
DagInit(g) ==
    /\ Dependencies = g
    /\ Children = [n \in DOMAIN g |-> <<>>]
    /\ ReadyCounter = [n \in DOMAIN g |-> NewReadyCounter(g[n])]
    /\ Status = [n \in DOMAIN g |-> "PENDING"]
    /\ nodeMu = [n \in DOMAIN g |-> FALSE]
    /\ gor = [n \in DOMAIN g |-> [p \in Positions |-> 0]]
    /\ trig = NoTrig
    /\ wg = 0
    /\ runPc = "built"
    /\ rootsLeft = {}
    /\ runResult = None
    /\ preResult = None
    /\ launched = [n \in DOMAIN g |-> 0]
    /\ execCount = [n \in DOMAIN g |-> 0]
    /\ termCount = [n \in DOMAIN g |-> 0]
    /\ firstFailed = None
    /\ ctxDone = FALSE

\* NewWorkflowManager / NewVersionManager: empty maps
RegInit ==
    /\ versions = <<>>
    /\ latest = <<>>
    /\ builders = <<>>
    /\ metadata = <<>>
    /\ regCalls = 0
    /\ lastReg = NoReg
    /\ produced = {}

Init ==
    /\ \E g \in Graphs : DagInit(g)
    /\ RegInit
    /\ ServicesInit

SchedulerStep ==
    \/ RunBegin
    \/ \E n \in NodeIds : RunLaunchRoot(n)
    \/ \E n \in NodeIds : SetRunning(n)
    \/ \E n \in NodeIds : ExecuteOk(n)
    \/ \E n \in NodeIds : ExecuteErr(n)
    \/ \E n \in NodeIds : MarkFailed(n)
    \/ \E n \in NodeIds : MarkCompleted(n)
    \/ \E n \in NodeIds : TriggerEnter(n)
    \/ TriggerChild
    \/ TriggerExit
    \/ RunReturn

Next ==
    \/ PreprocessDAG
    \/ CancelCtx
    \/ SchedulerStep

Spec == Init /\ [][Next]_vars

\* every goroutine that can take a step eventually takes one, and every executor returns
FairSpec == Spec /\ WF_vars(SchedulerStep)

RegNext ==
    \E workflowID \in WorkflowIds, version \in VersionStrings,
       builder \in Builders, md \in MetadataArgs :
        RegisterWorkflow(workflowID, version, builder, md)

\* the registry alone, beside an engine that is never run
RegOnlyInit == DagInit(GraphSingle) /\ RegInit /\ ServicesInit

RegSpec == RegOnlyInit /\ [][RegNext]_vars

EngNext ==
    \/ \E c \in EsCalls, executionID \in ExecIds : EsExecuteWorkflow(c, executionID)
    \/ \E c \in EsCalls : EsRunReturns(c)
    \/ \E c \in EsCalls : EsDeferredDelete(c)
    \/ \E executionID \in ExecIds : EsStopWorkflow(executionID)

\* one EngineService of some capacity, beside an engine and a registry that are not used
EngOnlyInit ==
    /\ DagInit(GraphSingle)
    /\ RegInit
    /\ \E capacity \in 1..MaxCapacity : EsInit(capacity)
    /\ LbInit("consistent-hash", LayoutBlocks)
    /\ DispInit
    /\ SubInit
    /\ MoreInit

EngSpec == EngOnlyInit /\ [][EngNext]_vars

\* one EngineService with a single slot; the goroutine of an admitted execution is
\* scheduled until it has ended, es.mu being only ever held for a bounded section
EngFairInit ==
    /\ DagInit(GraphSingle)
    /\ RegInit
    /\ ServicesInit

EngFairSpec ==
    /\ EngFairInit
    /\ [][EngNext]_vars
    /\ \A c \in EsCalls : WF_vars(EsDeferredDelete(c))

LbNext ==
    \/ \E engineID \in EngineIds, capacity \in CapValues : LbAddEngine(engineID, capacity)
    \/ \E engineID \in EngineIds : LbRemoveEngine(engineID)
    \/ \E key \in Keys : LbSelectEngine(key)
    \/ \E engineID \in EngineIds, capacity \in CapValues :
           LbUpdateEngineCapacity(engineID, capacity)
    \/ \E engineID \in EngineIds : LbIncrementActiveWorkflows(engineID)
    \/ \E engineID \in EngineIds : LbDecrementActiveWorkflows(engineID)

\* one balancer of either kind over some placement of the virtual nodes
LbOnlyInit ==
    /\ DagInit(GraphSingle)
    /\ RegInit
    /\ EsInit(1)
    /\ \/ \E layout \in Layouts : LbInit("consistent-hash", layout)
       \/ LbInit("round-robin", LayoutBlocks)
    /\ DispInit
    /\ SubInit
    /\ MoreInit

LbSpec == LbOnlyInit /\ [][LbNext]_vars

DispNext ==
    \/ DispRegister
    \/ \E d \in DispCalls, workflowID \in WorkflowIds, nanos \in Nanos :
           OxStart(d, workflowID, nanos)
    \/ \E d \in DispCalls : OxSelect(d)
    \/ \E d \in DispCalls, connected \in BOOLEAN : OxLookup(d, connected)
    \/ \E d \in DispCalls : OxIncrement(d)
    \/ \E d \in DispCalls, ok \in BOOLEAN : OxReturn(d, ok)
    \/ \E list \in DiscLists(DiscCapValues) : DiscOnChange(list)
    \/ \E engineID \in DiscEngineIds : DiscAddStep(engineID)
    \/ \E engineID \in DiscEngineIds : DiscRemoveStep(engineID)
    \/ DiscUnlock

\* one OrchestratorV2 with a balancer of either kind
DispOnlyInit ==
    /\ DagInit(GraphSingle)
    /\ RegInit
    /\ EsInit(1)
    /\ \E kind \in LbKinds : LbInit(kind, LayoutBlocks)
    /\ DispInit
    /\ SubInit
    /\ MoreInit

DispSpec == DispOnlyInit /\ [][DispNext]_vars

SubNext ==
    \/ \E k \in SubCalls, parentExecutionID \in ParentIds, nanos \in Nanos :
           ExecuteSubWorkflow(k, parentExecutionID, nanos)
    \/ \E k \in SubCalls : SubSetRunning(k)
    \/ \E k \in SubCalls, ok \in BOOLEAN : SubDispatchReturns(k, ok)
    \/ \E k \in SubCalls : SubDeferred(k)
    \/ \E parentExecutionID \in ParentIds : CancelChildren(parentExecutionID)
    \/ CancelLook
    \/ CancelMark
    \/ CancelReturn

\* one SubWorkflowCoordinator, beside services that are not used
SubOnlyInit ==
    /\ DagInit(GraphSingle)
    /\ RegInit
    /\ ServicesInit

SubSpec == SubOnlyInit /\ [][SubNext]_vars

\* one ExecuteWorkflow call on one discovered engine while versions of the
\* workflow are being registered
VerNext ==
    \/ \E version \in {V_1_0_0, V_2_0_0} :
           RegisterWorkflow("w", version, [ok |-> TRUE, refs |-> {}], "nil")
    \/ \E nanos \in Nanos : OxStart(1, "w", nanos)
    \/ OxSelect(1)
    \/ \E connected \in BOOLEAN : OxLookup(1, connected)
    \/ OxIncrement(1)
    \/ \E ok \in BOOLEAN : OxReturn(1, ok)
    \/ \E list \in [{"e1"} -> DiscCapValues] : DiscOnChange(list)
    \/ DiscAddStep("e1")
    \/ DiscUnlock

VerInit ==
    /\ DagInit(GraphSingle)
    /\ RegInit
    /\ ServicesInit

VerSpec == VerInit /\ [][VerNext]_vars

\* discovery alone: the callbacks of KubernetesDiscovery.Watch, one after another
\* one Monitor with a Stop call, direct RecordEvent callers and two engine streams
StopNext ==
    \/ \E executionID \in ExecutionIds : RecordEventCall(executionID)
    \/ \E engineID \in StreamEngines : AttachToEngineGRPC(engineID)
    \/ \E engineID \in StreamEngines, executionID \in ExecutionIds : StreamTake(engineID, executionID)
    \/ \E engineID \in StreamEngines : StreamRecord(engineID)
    \/ \E engineID \in StreamEngines : StreamReturn(engineID)
    \/ ProcTake
    \/ ProcUnlock
    \/ ProcReturn
    \/ StopCancel
    \/ StopClose
    \/ StopClearStreams
    \/ StopWait

StopOnlyInit ==
    /\ DagInit(GraphSingle)
    /\ RegInit
    /\ ServicesInit

StopSpec == StopOnlyInit /\ [][StopNext]_vars

\* the local Orchestrator with concurrent ExecuteWorkflow calls
LocNext ==
    \/ \E c \in LocCalls, engineID \in LocEngines : LocSelect(c, engineID)
    \/ \E c \in LocCalls : LocInstall(c)
    \/ \E c \in LocCalls : LocSend(c)
    \/ \E c \in LocCalls : LocReceive(c)
    \/ \E c \in LocCalls : LocTimeout(c)
    \/ \E engineID \in LocEngines : HandleWorkflowRequest(engineID)
    \/ \E r \in LocCalls : RunEnter(r)
    \/ \E r \in LocCalls : RunRespond(r)
    \/ \E r \in LocCalls : RunStatusUpdate(r)
    \/ \E r \in LocCalls : RunDeferred(r)
    \/ \E engineID \in LocEngines : MonitorEngineMessages(engineID)

LocOnlyInit ==
    /\ DagInit(GraphSingle)
    /\ RegInit
    /\ ServicesInit

LocSpec == LocOnlyInit /\ [][LocNext]_vars

DiscNext ==
    \/ \E list \in DiscLists(WatchCapValues) : DiscOnChange(list)
    \/ \E engineID \in DiscEngineIds : DiscAddStep(engineID)
    \/ \E engineID \in DiscEngineIds : DiscRemoveStep(engineID)
    \/ DiscUnlock

DiscOnlyInit ==
    /\ DagInit(GraphSingle)
    /\ RegInit
    /\ EsInit(1)
    /\ \E kind \in LbKinds : LbInit(kind, LayoutBlocks)
    /\ DispInit
    /\ SubInit
    /\ MoreInit

DiscSpec == DiscOnlyInit /\ [][DiscNext]_vars

MonNext ==
    \/ \E executionID \in ExecutionIds : RecordEvent(executionID)
    \/ Subscribe
    \/ ProcTake
    \/ ProcDeliver
    \/ ProcUnlock
    \/ \E i \in 1..MaxSubscribers : SubscriberReceive(i)

\* one started Monitor, beside services that are not used
MonOnlyInit ==
    /\ DagInit(GraphSingle)
    /\ RegInit
    /\ ServicesInit

MonSpec == MonOnlyInit /\ [][MonNext]_vars

ValNext == ParseYAMLFromBytes

\* one document handed to the parser, beside services that are not used
ValOnlyInit ==
    /\ DagInit(GraphSingle)
    /\ RegInit
    /\ EsInit(1)
    /\ LbInit("consistent-hash", LayoutBlocks)
    /\ DispInit
    /\ SubInit
    /\ MonInit
    /\ preCalls = 0
    /\ StopInit
    /\ LocInit
    /\ workflowSpec \in WorkflowSpecs
    /\ parsed = NotParsed

ValSpec == ValOnlyInit /\ [][ValNext]_vars

(***************************************************************************)
(* Properties of the DAG scheduler                                         *)
(***************************************************************************)
Parents(n) == {Dependencies[n][i] : i \in DOMAIN Dependencies[n]}

RECURSIVE Closure(_)
Closure(S) ==
    LET T == S \cup UNION {Parents(m) : m \in S \cap NodeIds}
    IN  IF T = S THEN S ELSE Closure(T)

\* the transitive ancestors of n in the dependency relation
Ancestors(n) == Closure(Parents(n))

HasCycle == \E n \in NodeIds : n \in Ancestors(n)

\* C1: a node is launched (and so leaves PENDING) only when every node in its
\* Dependencies is COMPLETED
C1_ParentsCompletedFirst ==
    \A v \in NodeIds :
        (launched[v] > 0 \/ Status[v] # "PENDING") =>
            \A u \in Parents(v) : u \in NodeIds /\ Status[u] = "COMPLETED"

\* the diamond's D is running, launched by the second of its parents to complete
C1_Witness ==
    /\ Dependencies = GraphDiamond
    /\ Status["D"] = "RUNNING"
    /\ Status["B"] = "COMPLETED"
    /\ Status["C"] = "COMPLETED"

\* C2: every node is launched at most once, its executor is invoked at most once
\* and it is given at most one terminal status
C2_AtMostOnce ==
    \A n \in NodeIds : launched[n] <= 1 /\ execCount[n] <= 1 /\ termCount[n] <= 1

\* the diamond has run to the end: D, a child of two parents, ran exactly once
C2_Witness ==
    /\ Dependencies = GraphDiamond
    /\ runPc = "returned"
    /\ execCount["D"] = 1
    /\ termCount["D"] = 1

\* C3: once a node has failed, no further node is launched
C3_NoLaunchAfterFailure ==
    [][firstFailed # None => launched' = launched]_vars

\* C4: Run returns the first captured node error when a node failed, and nil only
\* when none did
C4_RunReportsFirstError ==
    runPc = "returned" =>
        runResult = (IF firstFailed = None THEN "nil" ELSE firstFailed)

\* C5: when Run has returned after a failure, every node that was never launched
\* and has a FAILED ancestor is CANCELLED, its executor never invoked
C5_DescendantsCancelled ==
    runPc = "returned" =>
        \A n \in NodeIds :
            (launched[n] = 0 /\ \E a \in Ancestors(n) \cap NodeIds : Status[a] = "FAILED") =>
                (Status[n] = "CANCELLED" /\ execCount[n] = 0)

\* C6: on an acyclic graph, a Run that has started returns (executors all return)
C6_RunTerminates ==
    (runPc = "running" /\ ~HasCycle) ~> (runPc = "returned")

\* Run has returned on an acyclic graph of several nodes in which a node failed
C6_Witness ==
    /\ runPc = "returned"
    /\ ~HasCycle
    /\ firstFailed # None
    /\ wg = 0
    /\ Cardinality(NodeIds) >= 3

\* C7: a graph with a dependency cycle is rejected by PreprocessDAG, none of its
\* nodes is executed and Run never returns success for it
C7_CycleRejected ==
    HasCycle =>
        /\ preResult # "ok"
        /\ \A n \in NodeIds : execCount[n] = 0
        /\ runResult # "nil"

(***************************************************************************)
(* Semantic versioning, the order the registry is specified to use:        *)
(* major.minor.patch compared as numbers, a pre-release below its release  *)
(***************************************************************************)
RECURSIVE IndexOf(_, _, _)
IndexOf(str, byte, from) ==
    IF from > Len(str) THEN 0
    ELSE IF str[from] = byte THEN from
    ELSE IndexOf(str, byte, from + 1)

\* the part of the version before the first '-'
VersionCore(v) ==
    LET i == IndexOf(v, 45, 1) IN IF i = 0 THEN v ELSE SubSeq(v, 1, i - 1)

\* the part after the first '-' (empty for a release)
PreRelease(v) ==
    LET i == IndexOf(v, 45, 1) IN IF i = 0 THEN <<>> ELSE SubSeq(v, i + 1, Len(v))

RECURSIVE DecimalValue(_)
DecimalValue(digits) ==
    IF digits = <<>> THEN 0
    ELSE 10 * DecimalValue(SubSeq(digits, 1, Len(digits) - 1)) + (digits[Len(digits)] - 48)

\* the k-th dot-separated field of a version core, as a number
RECURSIVE Field(_, _)
Field(core, k) ==
    LET i == IndexOf(core, 46, 1)
        head == IF i = 0 THEN core ELSE SubSeq(core, 1, i - 1)
        rest == IF i = 0 THEN <<>> ELSE SubSeq(core, i + 1, Len(core))
    IN  IF k = 1 THEN DecimalValue(head) ELSE Field(rest, k - 1)

SemTriple(v) == [k \in 1..3 |-> Field(VersionCore(v), k)]

SemNewer(a, b) ==
    LET x == SemTriple(a)
        y == SemTriple(b)
    IN  \/ x[1] > y[1]
        \/ x[1] = y[1] /\ x[2] > y[2]
        \/ x[1] = y[1] /\ x[2] = y[2] /\ x[3] > y[3]
        \/ x = y /\ PreRelease(a) = <<>> /\ PreRelease(b) # <<>>
        \/ x = y /\ PreRelease(a) # <<>> /\ PreRelease(b) # <<>>
                 /\ StrGreater(PreRelease(a), PreRelease(b))

(***************************************************************************)
(* Properties of the version registry                                      *)
(***************************************************************************)
\* the step is a RegisterWorkflow call
IsRegister == regCalls' = regCalls + 1

\* the other registered workflows with a version whose Dependencies include id
RegisteredDependents(id) ==
    {o \in DOMAIN versions \ {id} :
        \E v \in DOMAIN versions[o] : id \in versions[o][v].Dependencies}

\* C8: the latest version of an id is not replaced while a registered workflow
\* depends on that id
C8_DependentSafety ==
    [][\A id \in DOMAIN latest :
          RegisteredDependents(id) # {} => latest'[id].Version = latest[id].Version]_vars

\* C9: latest(id) only moves to a semantically newer version, and a register of a
\* semantically newer version of an id without dependents becomes latest
C9_SemverMonotone ==
    [][\A id \in DOMAIN latest :
          /\ \/ latest'[id].Version = latest[id].Version
             \/ SemNewer(latest'[id].Version, latest[id].Version)
          /\ ( /\ IsRegister
               /\ lastReg'.id = id
               /\ lastReg'.kind # "BUILD_FAILED"
               /\ SemNewer(lastReg'.version, latest[id].Version)
               /\ Len(latest[id].Dependents) = 0 )
             => latest'[id].Version = lastReg'.version]_vars

\* C10: a register of an existing id with a version that is present or not newer
\* than the latest is rejected, the builder is not invoked and nothing changes
C10_RejectedUnchanged ==
    [][( /\ IsRegister
         /\ lastReg'.id \in DOMAIN latest
         /\ \/ lastReg'.version \in DOMAIN versions[lastReg'.id]
            \/ ~SemNewer(lastReg'.version, latest[lastReg'.id].Version) )
       => /\ lastReg'.kind \in {"DUPLICATE", "NOT_NEWER", "HAS_DEPENDENTS"}
          /\ ~lastReg'.built
          /\ UNCHANGED <<versions, latest, builders, metadata>>]_vars

C12_CapacityRespected ==
    [][/\ Cardinality(DOMAIN esActive') <= esCapacity'
       /\ \A c \in EsCalls :
             (esPc[c] = "idle" /\ esPc'[c] # "idle"
                  /\ Cardinality(DOMAIN esActive) >= esCapacity) =>
                 /\ esErr'[c] = "AT_CAPACITY"
                 /\ esPc'[c] = "rejected"
                 /\ esActive' = esActive
                 /\ esExecs' = esExecs
                 /\ c \notin DOMAIN esExecs']_vars

\* a call was refused while the engine was full, one has finished and one is still active
C12_Witness ==
    /\ \E c \in EsCalls : esErr[c] = "AT_CAPACITY"
    /\ Cardinality(DOMAIN esActive) = esCapacity
    /\ \E c \in EsCalls : esPc[c] = "done"

\* C13: an execution that StopWorkflow set to CANCELLED keeps that status for as
\* long as it can be looked up
C13_CancelledSticky ==
    [][\A id \in DOMAIN esActive \cap DOMAIN esActive' :
          (esActive'[id] = esActive[id] /\ esExecs[esActive[id]].Status = "CANCELLED") =>
              esExecs'[esActive[id]].Status = "CANCELLED"]_vars

(***************************************************************************)
(* Properties of the load balancers                                        *)
(***************************************************************************)
\* ListEngines
Members == DOMAIN capacities

\* C16: with the consistent-hash balancer, while the membership stays the same the
\* engine SelectEngine returns for a key does not change, whatever is incremented,
\* decremented or given a new capacity; the ring it reads holds exactly the members
C16_SelectPure ==
    [][lbKind = "consistent-hash" =>
          /\ hashRing' = Members'
          /\ Members' = Members =>
                \A key \in Keys : CHSelectEngine(key)' = CHSelectEngine(key)]_vars

\* the engine last selected carries load while another member carries none
C16_Witness ==
    /\ lbKind = "consistent-hash"
    /\ \E e \in Members, f \in Members :
          /\ lbSel.engine = e
          /\ MapGet(activeWorkflows, e) = MaxActive
          /\ MapGet(activeWorkflows, f) = 0
          /\ MapGet(capacities, e) = 0

\* C17: with the consistent-hash balancer, removing engine e leaves every key that
\* was not assigned to e with the engine it had, and adding engine e leaves every
\* key either with the engine it had or with e
C17_MinimalDisruption ==
    [][lbKind = "consistent-hash" =>
          \A e \in EngineIds :
              /\ (e \in Members /\ Members' = Members \ {e}) =>
                    \A key \in Keys :
                        CHSelectEngine(key).engine # e =>
                            CHSelectEngine(key)' = CHSelectEngine(key)
              /\ (e \notin Members /\ Members' = Members \cup {e}) =>
                    \A key \in Keys :
                        CHSelectEngine(key)'.engine \in {e, CHSelectEngine(key).engine}]_vars

\* the engine last selected has been removed and two engines remain
C17_Witness ==
    /\ lbKind = "consistent-hash"
    /\ Cardinality(Members) = 2
    /\ lbSel.err = "nil"
    /\ lbSel.engine \notin Members

\* C18: a SelectEngine call returns the no-engine error exactly when the balancer
\* has no members, and otherwise returns a member
C18_SelectReturnsMember ==
    [][lbSel' # lbSel =>
          /\ (lbSel'.err = "no engines available") <=> (Members = {})
          /\ Members # {} => (lbSel'.err = "nil" /\ lbSel'.engine \in Members)]_vars

(***************************************************************************)
(* Properties of OrchestratorV2                                            *)
(***************************************************************************)
\* C14: the execution ids one orchestrator has minted are pairwise distinct, and
\* their counter components increase strictly in mint order
C14_ExecutionIdsUnique ==
    \A i \in 1..Len(minted) : \A j \in 1..Len(minted) :
        i < j => /\ minted[i].id # minted[j].id
                 /\ minted[i].counter < minted[j].counter

\* two ids were minted on the same clock reading
C14_Witness ==
    /\ Len(minted) >= 2
    /\ minted[1].nanos = minted[2].nanos

\* an ExecuteWorkflow call has started and has neither returned nor panicked
InFlight(d) == dPc[d] \notin {"idle", "returned", "panicked"}

\* C15: a call that incremented an engine's active count decrements it exactly once
\* before it ends, a call that ended before the increment never decrements, no
\* count is negative, and when no call is in flight every count is 0
C15_ActiveCountBalanced ==
    /\ \A d \in DispCalls :
          /\ dReq[d].decd <= dReq[d].incd
          /\ dReq[d].incd <= 1
          /\ ~InFlight(d) => dReq[d].decd = dReq[d].incd
          /\ dPc[d] \in {"select", "lookup", "connected"} => dReq[d].incd = 0
    /\ \A e \in EngineIds : MapGet(activeWorkflows, e) >= 0
    /\ (\A d \in DispCalls : ~InFlight(d)) =>
          \A e \in EngineIds : MapGet(activeWorkflows, e) = 0

\* one call incremented and decremented, another ended before the increment, and
\* the balancer holds a count for an engine the orchestrator no longer knows
C15_Witness ==
    /\ \A d \in DispCalls : ~InFlight(d)
    /\ \E d \in DispCalls : dReq[d].incd = 1 /\ dReq[d].decd = 1
    /\ \E d \in DispCalls : dReq[d].err = "failed to connect to engine"
    /\ \E e \in DOMAIN activeWorkflows : e \notin oEngines

(***************************************************************************)
(* Properties of SubWorkflowCoordinator                                    *)
(***************************************************************************)
\* C19: a child that was not COMPLETED or FAILED when CancelChildren over it
\* returned is CANCELLED from then on
C19_ChildrenCancelled ==
    \A k \in cancelReturned : subExecs[k].Status = "CANCELLED"

\* C20: a child record is CANCELLED only after a stop instruction for it was sent
\* to the engine
C20_StopBeforeCancelled ==
    \A k \in DOMAIN subExecs :
        subExecs[k].Status = "CANCELLED" => subExecs[k].ExecutionID \in stopsIssued

\* C21: an ExecuteWorkflow call that returns an error also returns a
\* WorkflowResponse, one whose Success is false
C21_FailureHasResponse ==
    \A d \in DispCalls :
        (dPc[d] = "returned" /\ dReq[d].err # "nil") => dReq[d].resp = "failure"

(***************************************************************************)
(* Properties of the Monitor                                               *)
(***************************************************************************)
\* C22: neither RecordEvent nor the fan-out ever waits on a full channel; a
\* fan-out step leaves a full subscriber channel as it is, appends the event to a
\* channel with room, and touches no other subscriber; RecordEvent on a full
\* inbound channel drops the event
C22_NonBlockingFanout ==
    [][/\ proc'.pc # "blocked"
       /\ \A i \in 1..Len(recorded') : recorded'[i] # "blocked"
       /\ (proc.pc = "fanout" /\ proc.idx <= Len(subscribers) /\ proc' # proc) =>
             /\ \A j \in 1..Len(subscribers) :
                   subscribers'[j] =
                       IF j = proc.idx /\ Len(subscribers[j]) < SubscriberCap
                       THEN Append(subscribers[j], proc.event)
                       ELSE subscribers[j]
             /\ proc'.idx = proc.idx + 1
       /\ (Len(recorded') > Len(recorded) /\ Len(events) >= InboundCap) =>
             /\ events' = events
             /\ recorded'[Len(recorded')] = "dropped"]_vars

\* RecordEvent dropped an event at the full inbound channel, and a finished
\* fan-out dropped an event for one subscriber that was there (it has read an
\* earlier event) and delivered it to another
C22_Witness ==
    /\ \E i \in 1..Len(recorded) : recorded[i] = "dropped"
    /\ proc.pc = "idle"
    /\ \E i \in 1..Len(subscribers), j \in 1..Len(subscribers), e \in Range(accepted) :
          /\ e \in Range(received[j])
          /\ e \notin Range(received[i]) \cup Range(subscribers[i])
          /\ \E b \in Range(received[i]) : b.id < e.id

RECURSIVE IsSubsequence(_, _)
IsSubsequence(q, r) ==
    IF q = <<>> THEN TRUE
    ELSE IF r = <<>> THEN FALSE
    ELSE IF Head(q) = Head(r) THEN IsSubsequence(Tail(q), Tail(r))
    ELSE IsSubsequence(q, Tail(r))

\* C23: what a subscriber has read, followed by what waits in its channel, is a
\* subsequence of the events in the order the inbound channel accepted them
C23_SubscriberOrder ==
    \A i \in 1..Len(subscribers) :
        IsSubsequence(received[i] \o subscribers[i], accepted)

\* a subscriber has read two events of one execution and missed one between them
C23_Witness ==
    \E i \in 1..Len(subscribers) :
        /\ Len(received[i]) = 2
        /\ received[i][1].ExecutionID = received[i][2].ExecutionID
        /\ received[i][2].id = received[i][1].id + 2

(***************************************************************************)
(* Properties of the YAML parser                                           *)
(***************************************************************************)
\* the node ids of a document are pairwise different
UniqueNodeIDs(nodes) ==
    \A i \in 1..Len(nodes), j \in 1..Len(nodes) : nodes[i].ID = nodes[j].ID => i = j

\* every dependency of a document names one of its nodes
KnownDependencies(nodes) ==
    \A i \in 1..Len(nodes) :
        \A k \in 1..Len(nodes[i].Dependencies) :
            \E j \in 1..Len(nodes) : nodes[j].ID = nodes[i].Dependencies[k]

\* C24: ParseYAMLFromBytes returns an error for a document without apiVersion,
\* without nodes, with two nodes of one id, or with a dependency on an id that
\* no node has; it returns the document, and no error, when apiVersion is
\* workflows/v1, kind is Workflow, the metadata is valid, there is at least one
\* node, every node is valid, and nothing else in the document is invalid
C24_ValidateContract ==
    parsed.done /\ ~workflowSpec.nil =>
        LET nodes == workflowSpec.Spec.Nodes
            rejected == parsed.err # <<>> /\ parsed.spec = Nil
        IN  /\ workflowSpec.APIVersion = "" => rejected
            /\ nodes = <<>> => rejected
            /\ ~UniqueNodeIDs(nodes) => rejected
            /\ ~KnownDependencies(nodes) => rejected
            /\ (/\ workflowSpec.APIVersion = "workflows/v1"
                /\ workflowSpec.Kind = "Workflow"
                /\ MetadataValidate(workflowSpec.Metadata) = "nil"
                /\ nodes # <<>>
                /\ \A i \in 1..Len(nodes) : NodeValidate(nodes[i]) = "nil"
                /\ UniqueNodeIDs(nodes)
                /\ KnownDependencies(nodes)
                /\ workflowSpec.Spec.Triggers.nil \/ TriggersValidate(workflowSpec.Spec.Triggers) = "nil"
                /\ workflowSpec.Spec.Configuration.nil
                      \/ ConfigValidate(workflowSpec.Spec.Configuration) = "nil")
               => (parsed.err = <<>> /\ parsed.spec = workflowSpec)

\* a document that is valid but for two nodes of one id was rejected for that
C24_Witness ==
    /\ parsed.done /\ ~workflowSpec.nil
    /\ Len(workflowSpec.Spec.Nodes) = 2
    /\ workflowSpec.Spec.Nodes[1].ID = workflowSpec.Spec.Nodes[2].ID
    /\ parsed.err = <<"duplicate node id">>

(***************************************************************************)
(* Properties of the scheduler, continued                                  *)
(***************************************************************************)
\* C25: once the context passed to Run is cancelled no node is launched any more,
\* neither a root by Run nor a child by triggerChildren, so that Run returns when
\* the nodes running at the cancellation have returned
C25_NoLaunchAfterCancel ==
    [][ctxDone => (launched' = launched /\ wg' <= wg)]_vars

\* no executor has returned an error
AllSucceeded == firstFailed = None /\ \A n \in NodeIds : gor[n]["ret_err"] = 0

\* C26: on a preprocessed acyclic graph whose executors all succeed, a node is
\* started only after all its ancestors are COMPLETED (so the diamond's D
\* completes last and a chain completes in dependency order), and when Run has
\* returned every node is COMPLETED, each by one completion, and every
\* ReadyCounter is 0
C26_AllCompleted ==
    (preResult = "ok" /\ ~HasCycle /\ AllSucceeded) =>
        /\ \A v \in NodeIds :
              Status[v] # "PENDING" =>
                  \A u \in Ancestors(v) : Status[u] = "COMPLETED" /\ termCount[u] = 1
        /\ runPc = "returned" =>
              \A n \in NodeIds :
                  Status[n] = "COMPLETED" /\ termCount[n] = 1 /\ ReadyCounter[n] = 0

\* Run has returned on the diamond with four completions
C26_Witness ==
    /\ Dependencies = GraphDiamond
    /\ runPc = "returned"
    /\ AllSucceeded
    /\ \A n \in NodeIds : Status[n] = "COMPLETED" /\ ReadyCounter[n] = 0

\* how many times x occurs in the list
Occurrences(list, x) == Cardinality({k \in 1..Len(list) : list[k] = x})

\* some dependency names an id that is not a node of the graph
HasMissingDependency ==
    \E n \in NodeIds : \E k \in 1..Len(Dependencies[n]) : Dependencies[n][k] \notin NodeIds

\* C27: every PreprocessDAG call, the first and a repeated one, returns an error
\* exactly when some dependency names a node that is not in the graph, and
\* otherwise leaves in each node's Children the nodes that depend on it and no
\* other, each once per dependency entry (the order within a list is the order
\* of the range over the node map)
C27_PreprocessBuildsChildren ==
    preCalls > 0 =>
        /\ preResult = (IF HasMissingDependency THEN "error" ELSE "ok")
        /\ preResult = "ok" =>
              \A n \in NodeIds :
                  /\ \A k \in 1..Len(Children[n]) : Children[n][k] \in NodeIds
                  /\ \A c \in NodeIds :
                        Occurrences(Children[n], c) = Occurrences(Dependencies[c], n)

\* PreprocessDAG has been called a second time on the diamond
C27_Witness ==
    /\ preCalls = 2
    /\ Dependencies = GraphDiamond
    /\ preResult = "ok"
    /\ Len(Children["A"]) = 2

(***************************************************************************)
(* Properties of OrchestratorV2, continued                                 *)
(***************************************************************************)
\* C28: an ExecuteWorkflow call fails because the selected engine is missing from
\* o.engines only after it has selected again at least once
C28_RetriesBeforeNoEngine ==
    \A d \in DispCalls :
        (dPc[d] = "returned" /\ dReq[d].err = "engine not found") =>
            dReq[d].selections > 1

\* LoadBalancer.ListEngines, as a set
ListEngines == IF lbKind = "consistent-hash" THEN DOMAIN capacities ELSE Range(engines)

\* C29: a discovery callback runs under o.mu, and when none is running the keys
\* of o.engines, the balancer's ListEngines and the ids of the list last
\* delivered are the same set, each member having the capacity delivered for it
C29_DiscoveryReconciled ==
    /\ discPc = "running" => oMu
    /\ discPc = "idle" =>
          /\ oEngines = DOMAIN discList
          /\ ListEngines = DOMAIN discList
          /\ \A engineID \in DOMAIN discList :
                MapGet(capacities, engineID) = discList[engineID]

\* a callback has completed that delivered two engines with different capacities
C29_Witness ==
    /\ discPc = "idle"
    /\ DOMAIN discList = {"e1", "e2"}
    /\ discList["e1"] = 2
    /\ discList["e2"] = 1
    /\ oEngines = {"e1", "e2"}

(***************************************************************************)
(* Properties of the SubWorkflowCoordinator, continued                     *)
(***************************************************************************)
\* C30: a child record is released once it is terminal: when the goroutine of an
\* ExecuteSubWorkflow call has ended and no CancelChildren call is running, its
\* record, COMPLETED, FAILED or CANCELLED, is in activeSubWorkflows no more, nor
\* is its id in the children list of its parent
C30_TerminalReleased ==
    \A k \in DOMAIN subExecs :
        (/\ subPc[k] = "done"
         /\ cancel.pc = "idle"
         /\ subExecs[k].Status \in {"COMPLETED", "FAILED", "CANCELLED"}) =>
            /\ subExecs[k].ExecutionID \notin DOMAIN activeSubWorkflows
            /\ \A parent \in DOMAIN parentToChildren :
                  subExecs[k].ExecutionID \notin Range(parentToChildren[parent])

(***************************************************************************)
(* Properties of the EngineService, continued                              *)
(***************************************************************************)
\* C31: once the Run of an admitted execution has returned, whatever status it was
\* given, the execution is eventually no longer in activeWorkflows, so its slot
\* is free for later ExecuteWorkflow calls
C31_ExecutionReleased ==
    \A c \in EsCalls :
        (esPc[c] = "deferred") ~>
            (esPc[c] = "done" /\ \A id \in DOMAIN esActive : esActive[id] # c)

\* on an engine of capacity 1 an execution has ended and been removed, and a later
\* call has been admitted into the slot
C31_Witness ==
    /\ esCapacity = 1
    /\ \E c \in EsCalls, later \in EsCalls :
          /\ c < later
          /\ esPc[c] = "done"
          /\ esPc[later] = "run"
          /\ \E id \in DOMAIN esActive : esActive[id] = later

(***************************************************************************)
(* Properties of OrchestratorV2 with either balancer                       *)
(***************************************************************************)
\* C32: with the round-robin balancer an ExecuteWorkflow call that has selected an
\* engine goes on to increment its count, issue the call and return: it does
\* not abort
C32_RoundRobinDispatches ==
    lbKind = "round-robin" =>
        \A d \in DispCalls : ~(dPc[d] = "panicked" /\ dReq[d].engineID # None)

(***************************************************************************)
(* Properties of the SubWorkflowCoordinator: execution ids                 *)
(***************************************************************************)
\* C33: the ExecuteSubWorkflow calls made so far returned pairwise different
\* execution ids, the record of each is the one activeSubWorkflows holds under
\* its id, and no children list holds an id twice
C33_SubExecutionIdsUnique ==
    /\ \A k \in DOMAIN subExecs, j \in DOMAIN subExecs :
          subExecs[k].ExecutionID = subExecs[j].ExecutionID => k = j
    /\ \A k \in DOMAIN subExecs :
          /\ subExecs[k].ExecutionID \in DOMAIN activeSubWorkflows
          /\ activeSubWorkflows[subExecs[k].ExecutionID] = k
    /\ \A parent \in DOMAIN parentToChildren :
          \A i \in 1..Len(parentToChildren[parent]), j \in 1..Len(parentToChildren[parent]) :
              parentToChildren[parent][i] = parentToChildren[parent][j] => i = j

\* C34: with the consistent-hash balancer the active count of every engine is the
\* number of ExecuteWorkflow calls that have incremented it and not yet
\* decremented it, and only members of the balancer have an active count
C34_ActiveCountIsInFlight ==
    lbKind = "consistent-hash" =>
        /\ \A e \in DiscEngineIds :
              MapGet(activeWorkflows, e) =
                  Cardinality({d \in DispCalls :
                                  /\ dReq[d].engineID = e
                                  /\ dReq[d].incd = 1
                                  /\ dReq[d].decd = 0})
        /\ DOMAIN activeWorkflows \subseteq DOMAIN capacities

(***************************************************************************)
(* Properties of the round-robin balancer                                  *)
(***************************************************************************)
\* C35: with the round-robin balancer, whenever the engine list is not empty the
\* cursor is an index of it, and no SelectEngine call indexes outside the list
C35_CursorInRange ==
    lbKind = "round-robin" =>
        /\ engines # <<>> => (0 <= current /\ current < Len(engines))
        /\ lbSel.err # "panic"

(***************************************************************************)
(* Properties of OrchestratorV2 and the registry together                  *)
(***************************************************************************)
\* C36: the version an ExecuteWorkflow call read as the latest, which it sends and
\* reports, is the version whose registration stored the builder the call invoked
C36_VersionMatchesBuilder ==
    \A d \in DispCalls :
        dReq[d].builtBy # <<>> => dReq[d].builtBy = dReq[d].version

\* C37: no interleaving of Monitor.Stop with RecordEvent (called directly or by a stream
\* goroutine) sends on the closed events channel, and AttachToEngineGRPC never writes
\* to the stream registry after Stop has set it to nil: the process never panics
C37_StopNeverPanics == monPanic = None

\* the run of request r is inside DAGEngine.Run
InRun(r) == runs[r].pc = "running"

\* C38: in the local Orchestrator an engine wrapper runs at most one workflow at a time:
\* no two calls have a request outstanding at the same wrapper, no two runs of one
\* wrapper are inside Run together, and the engine a run is executing is still the one
\* installed in its wrapper
C38_OneWorkflowPerWrapper ==
    /\ \A c1, c2 \in LocCalls :
          (/\ c1 # c2
           /\ lPc[c1] = "waiting" /\ ~Responded(lReq[c1].RequestID)
           /\ lPc[c2] = "waiting" /\ ~Responded(lReq[c2].RequestID))
          => lReq[c1].engineID # lReq[c2].engineID
    /\ \A r1, r2 \in LocCalls :
          (r1 # r2 /\ InRun(r1) /\ InRun(r2)) => runs[r1].engineID # runs[r2].engineID
    /\ \A r \in LocCalls :
          InRun(r) => wrappers[runs[r].engineID].Engine = runs[r].Engine

\* C39: a call that returned after its engine had written the response with its
\* RequestID to Outbound returned that response, not a timeout nor an unexpected response
C39_ResponseReachesCaller ==
    \A c \in LocCalls :
        (lPc[c] = "returned" /\ lReq[c].responded) => lReq[c].result = "response"

\* C40: every per-node state change is made under the node's lock and the lock is
\* released afterwards: once Run has returned no node's lock is held, so the status of
\* every node, a FAILED one included, can be read under its lock
C40_NodeLocksReleased ==
    runPc = "returned" => \A n \in DOMAIN nodeMu : ~nodeMu[n]

====
